---- MODULE Spec2Model ----
(***************************************************************************)
(* The card-data updater of CardNinja (backend/scripts/update_cards.py):   *)
(* main() walks the source catalog one card at a time, update_card()       *)
(* fetches the page and its sub-links, extract_with_llm() rotates through  *)
(* the API keys, and the dataset file is rewritten after every card.       *)
(***************************************************************************)
EXTENDS Integers, Sequences, FiniteSets, TLC

VARIABLES
    disk,            \* OUTPUT_FILE (cards.json): [state, last_updated, cards]
    now,             \* datetime.now(), in ticks
    pc,              \* where main() stands
    run,             \* number of runs of the script started so far
    raised,          \* the exception that left main(), "none" if none did
    env,             \* what this run finds: provider kind, DATA_DIR, the catalog
    api_keys,        \* len(API_KEYS) of this run
    existing_cards,  \* main(): existing_cards, id -> record or None
    cards_data,      \* main(): cards_data, one slot per catalog card
    idx,             \* main(): position of the for loop in sources["cards"]
    updated_cards,   \* main(): updated_cards (catalog positions)
    failed_cards,    \* main(): failed_cards
    skipped_cards,   \* main(): skipped_cards
    links,           \* update_card(): number of relevant links found
    link_idx,        \* fetch_deep_links(): position in links
    key_idx,         \* extract_with_llm(): key_idx + 1
    call_log,        \* completion calls made for the current card
    extracted,       \* update_card(): what extract_with_llm() returned
    main_content,    \* update_card(): the main page's text is empty (0) or not (1)
    touched,         \* cards of this run for which a network request went out
    persisted,       \* cards of this run whose record a completed write holds
    start_disk,      \* the dataset file as it was when this run started
    start_time,      \* the clock when this run started
    prev,            \* how the previous run ended, if it ran to completion
    log,             \* LOG_FILE (update_log.txt): the entries appended so far
    start_log,       \* the run log as it was when this run started
    in_flight,       \* the network operations sent and not yet returned
    scrape_delay,    \* config.SCRAPE_DELAY, in seconds
    delay,           \* main(): delay, as last computed
    response,        \* fetch_page_content(): what client.get met for the url
    extract_links,   \* fetch_page_content(): the extract_links argument
    fetched,         \* what fetch_page_content returned: text length and links
    combined_content,\* fetch_deep_links(): lengths of the pieces appended so far
    deep_log,        \* fetch_deep_links(): the fetches made, link and length returned
    content,         \* update_card(): len(content) handed to extract_with_llm
    llm_provider,    \* config.LLM_PROVIDER
    key_settings,    \* config.<PROVIDER>_API_KEYS and <PROVIDER>_API_KEY, as set
    keys,            \* what config.get_api_keys() returned
    credit_cards,    \* credit_cards.py: the module's global credit_cards
    main_credit_cards, \* main.py: the name credit_cards bound by its import
    reloaded,        \* reload_card_data has been served since the import
    answer,          \* what the last reader of the card list returned
    chat_file,       \* data/chat_sessions.json
    chat_waiting,    \* sessions whose chat request awaits get_llm_response
    last_request     \* the last chat or admin request and how it ended

mainVars == <<disk, now, pc, run, raised, env, api_keys, existing_cards, cards_data,
              idx, updated_cards, failed_cards, skipped_cards, links, link_idx, key_idx,
              call_log, extracted, main_content, touched, persisted, start_disk,
              start_time, prev, log, start_log, in_flight, scrape_delay, delay>>

pageVars == <<response, extract_links, fetched, combined_content, deep_log, content>>

confVars == <<llm_provider, key_settings, keys>>
cardsVars == <<credit_cards, main_credit_cards, reloaded, answer>>

chatVars == <<chat_file, chat_waiting, last_request>>

appVars == <<confVars, cardsVars, chatVars>>

vars == <<mainVars, pageVars, appVars>>

---------------------------------------------------------------------------
(* Bounds of the model *)

NumCards == 2
MaxKeys == 2
MaxRuns == 2
TicksPerDay == 2
MaxTicks == 1
MaxAnchors == 4

(* Program constants *)

MAX_DEEP_LINKS == 3
DEEP_LINK_CONTENT_SIZE == 1500
MAX_TOTAL_CONTENT == 6000
\* text[:4000] in fetch_page_content
PAGE_TEXT_SIZE == 4000
\* a_tag.get_text(strip=True)[:50] in extract_relevant_links
LINK_TEXT_SIZE == 50
\* len("\n--- ") + len(" ---\n") in fetch_deep_links
LABEL_MARKS_LEN == 10
\* len("\n\n=== ADDITIONAL DETAILS FROM SUB-PAGES ===\n") in update_card
SUBPAGES_HEADER_LEN == 44

CATEGORIES == {"dining", "groceries", "travel", "gas", "streaming",
               "online_shopping", "transit", "entertainment", "drugstore", "other"}

DEFAULT_NOTES == "Data not available - using defaults"

\* [:5] on special_offers and credits in update_card
LIST_CAP == 5

\* point values in hundredths: base_value 1.0, best_value 1.0
DEFAULT_POINT_VALUE == [base_value |-> 100, best_value |-> 100,
                        best_redemption |-> "Statement credit"]

\* "2020-01-01T00:00:00", the first tick of day 0
PLACEHOLDER_TIME == 0

\* SCRAPE_DELAY when the environment does not set it, in seconds
DEFAULT_SCRAPE_DELAY == 120
\* the delay main() uses at most when several keys are configured
ROTATION_DELAY == 60

---------------------------------------------------------------------------
(* Time: a timestamp is a tick. The first run starts on the last tick of   *)
(* day 1, so that one more tick is the next calendar day.                  *)

NoTimestamp == 0 - 1
\* values of last_updated that are no timestamp: "", a string that is no ISO
\* date, a number
EmptyStamp == 0 - 2
Unparseable == 0 - 3
NotAString == 0 - 4
\* main() has not reached the computation of delay
NoDelay == 0 - 1
\* a time on day 0, after the placeholder timestamp
OldTime == PLACEHOLDER_TIME + 1
\* the first tick of day 1
EarlierToday == TicksPerDay
StartTime == 2 * TicksPerDay - 1
MaxTime == StartTime + MaxTicks

DateOf(t) == t \div TicksPerDay

---------------------------------------------------------------------------
(* JSON values of a multiplier *)

JNum(n) == [t |-> "num", n |-> n]
JNull == [t |-> "null", n |-> 0]
JMissing == [t |-> "missing", n |-> 0]

AllOnes == [cat \in CATEGORIES |-> JNum(1)]
NoCategories == [cat \in CATEGORIES |-> JMissing]

---------------------------------------------------------------------------
(* The source catalog (card_sources.json): unique ids, in catalog order *)

Sources == [i \in 1..NumCards |-> [id |-> i, name |-> 100 + i, issuer |-> 300 + i,
                                    color |-> 400 + i, url |-> 200 + i]]

Ids == {Sources[i].id : i \in 1..NumCards}

(* Card records; None is Python's None *)

None == [id |-> 0, name |-> 0, issuer |-> 0, color |-> 0, source_url |-> 0,
         annual_fee |-> 0, reward_type |-> "", point_value |-> DEFAULT_POINT_VALUE,
         special_offers |-> << >>, credits |-> << >>,
         categories |-> NoCategories, notes |-> "", last_updated |-> NoTimestamp]

\* a JSON list of n entries, told apart by their position in the reply
Entries(n) == [k \in 1..n |-> k]

RealRecord(i, t) ==
    [id |-> Sources[i].id, name |-> Sources[i].name, issuer |-> Sources[i].issuer,
     color |-> Sources[i].color, source_url |-> Sources[i].url,
     annual_fee |-> 95, reward_type |-> "points",
     point_value |-> [base_value |-> 100, best_value |-> 200,
                      best_redemption |-> "Travel"],
     special_offers |-> Entries(2), credits |-> Entries(1),
     categories |-> [AllOnes EXCEPT !["dining"] = JNum(3)],
     notes |-> "prior notes", last_updated |-> t]

---------------------------------------------------------------------------
(* Replies of the completion service, after json.loads *)

\* keys: which of annual_fee, reward_type, point_value, special_offers and
\* credits the object holds; the value of a key it does not hold is not read
NoReply == [kind |-> "none", categories_kind |-> "absent", categories |-> NoCategories,
            notes |-> "", keys |-> {}, annual_fee |-> 0, reward_type |-> "",
            point_value |-> DEFAULT_POINT_VALUE, special_offers |-> << >>,
            credits |-> << >>]

ReplyObject(cats) == [NoReply EXCEPT !.kind = "object", !.categories_kind = "object",
                                     !.categories = cats, !.notes = "extracted"]

\* {"categories": {"groceries": 5}, "reward_type": "points", "point_value": {...},
\*  "special_offers": [six entries], "credits": [five entries], ...}
ReplyPartial ==
    [ReplyObject([NoCategories EXCEPT !["groceries"] = JNum(5)]) EXCEPT
        !.keys = {"reward_type", "point_value", "special_offers", "credits"},
        !.reward_type = "points",
        !.point_value = [base_value |-> 100, best_value |-> 200,
                         best_redemption |-> "Travel"],
        !.special_offers = Entries(LIST_CAP + 1),
        !.credits = Entries(LIST_CAP)]
\* {"annual_fee": 95}
ReplyNoCategories ==
    [ReplyObject(NoCategories) EXCEPT !.categories_kind = "absent",
                                      !.keys = {"annual_fee"}, !.annual_fee = 95]
\* {"categories": {"dining": 0, "groceries": null}, "credits": [seven entries]}
ReplyBadValue ==
    [ReplyObject([NoCategories EXCEPT !["dining"] = JNum(0),
                                      !["groceries"] = JNull]) EXCEPT
        !.keys = {"credits"}, !.credits = Entries(LIST_CAP + 2)]
\* {"categories": [1, 2]}
ReplyBadCategories == [ReplyObject(NoCategories) EXCEPT !.categories_kind = "array"]
\* {}
ReplyEmptyObject == [NoReply EXCEPT !.kind = "empty_object"]
\* [1, 2]
ReplyArray == [NoReply EXCEPT !.kind = "array"]

Replies == {ReplyPartial, ReplyNoCategories, ReplyBadValue, ReplyBadCategories,
            ReplyEmptyObject, ReplyArray}

\* Python's "not extracted"
Falsy(reply) == reply.kind \in {"none", "null", "empty_object"}

---------------------------------------------------------------------------
(* Outcomes of one completion call *)

Transient == {"rate_limited", "unavailable", "not_found", "http_error", "timeout",
              "error"}
Outcomes == Transient \cup {"ok", "malformed"}

---------------------------------------------------------------------------
(* The dataset file *)

MissingFile == [state |-> "missing", last_updated |-> NoTimestamp, cards |-> << >>]
\* open(OUTPUT_FILE, 'w') has truncated the file and json.dump has not finished
PartialFile == [state |-> "partial", last_updated |-> NoTimestamp, cards |-> << >>]

MaxOf(S) == CHOOSE m \in S : \A k \in S : k <= m

\* {card['id']: card for card in cards}: the last record of an id wins
RecordOf(cards, id) ==
    LET at == {k \in DOMAIN cards : cards[k].id = id}
    IN  IF at = {} THEN None ELSE cards[MaxOf(at)]

\* the file is not read: every run starts without existing records
load_existing_cards_forgets(d) == [id \in Ids |-> None]

load_existing_cards(d) ==
    IF d.state = "ok" THEN [id \in Ids |-> RecordOf(d.cards, id)]
    ELSE [id \in Ids |-> None]

\* {"last_updated": now, "cards": [c for c in cards_data if c is not None]}
output_data(data, t) ==
    [state |-> "ok", last_updated |-> t,
     cards |-> SelectSeq(data, LAMBDA c : c # None)]

\* the exception that leaves load_existing_cards, "none" if it returns: only
\* FileNotFoundError and json.JSONDecodeError are caught
load_raises(d) ==
    CASE d.state = "unreadable" -> "PermissionError"
      [] d.state = "json_array" -> "AttributeError"
      [] d.state = "card_without_id" -> "KeyError"
      [] OTHER -> "none"

---------------------------------------------------------------------------
(* is_updated_today *)

\* the date comparison never succeeds (a datetime compared with a date)
is_updated_today_never(card_data, t) == FALSE

\* datetime.fromisoformat(last_updated).date(): the exception, or the date
fromisoformat(last_updated) ==
    CASE last_updated \in {NoTimestamp, NotAString} -> [raised |-> "TypeError", date |-> 0]
      [] last_updated \in {EmptyStamp, Unparseable} -> [raised |-> "ValueError", date |-> 0]
      [] OTHER -> [raised |-> "none", date |-> DateOf(last_updated)]

\* a value that cannot be parsed counts as today's date
is_updated_today_unparsed_is_today(card_data, t) ==
    IF card_data.last_updated \in {NoTimestamp, EmptyStamp} THEN FALSE
    ELSE IF fromisoformat(card_data.last_updated).raised # "none" THEN TRUE
    ELSE fromisoformat(card_data.last_updated).date = DateOf(t)

is_updated_today(card_data, t) ==
    IF card_data.last_updated \in {NoTimestamp, EmptyStamp} THEN FALSE
    ELSE IF fromisoformat(card_data.last_updated).raised \in {"ValueError", "TypeError"}
    THEN FALSE
    ELSE fromisoformat(card_data.last_updated).date = DateOf(t)

\* the exception that leaves is_updated_today, "none" if it returns
is_updated_today_raises(card_data) ==
    IF card_data.last_updated \in {NoTimestamp, EmptyStamp} THEN "none"
    ELSE IF fromisoformat(card_data.last_updated).raised \in {"ValueError", "TypeError"}
    THEN "none"
    ELSE fromisoformat(card_data.last_updated).raised

(* get_default_card_data *)

\* the placeholder is stamped with the day of the first run
default_data_today(card_source) ==
    [id |-> card_source.id, name |-> card_source.name, issuer |-> card_source.issuer,
     color |-> card_source.color, source_url |-> card_source.url,
     annual_fee |-> 0, reward_type |-> "cashback",
     point_value |-> DEFAULT_POINT_VALUE, special_offers |-> << >>,
     credits |-> << >>,
     categories |-> AllOnes, notes |-> DEFAULT_NOTES, last_updated |-> StartTime]

\* the placeholder carries the extraction default of no categories at all
default_data_no_categories(card_source) ==
    [id |-> card_source.id, name |-> card_source.name, issuer |-> card_source.issuer,
     color |-> card_source.color, source_url |-> card_source.url,
     annual_fee |-> 0, reward_type |-> "cashback",
     point_value |-> DEFAULT_POINT_VALUE, special_offers |-> << >>,
     credits |-> << >>,
     categories |-> NoCategories, notes |-> DEFAULT_NOTES,
     last_updated |-> PLACEHOLDER_TIME]

default_data(card_source) ==
    [id |-> card_source.id, name |-> card_source.name, issuer |-> card_source.issuer,
     color |-> card_source.color, source_url |-> card_source.url,
     annual_fee |-> 0, reward_type |-> "cashback",
     point_value |-> DEFAULT_POINT_VALUE, special_offers |-> << >>,
     credits |-> << >>,
     categories |-> AllOnes, notes |-> DEFAULT_NOTES, last_updated |-> PLACEHOLDER_TIME]

\* the existing record is ignored
get_default_card_data_placeholder(card_source, existing_card) ==
    default_data(card_source)

get_default_card_data(card_source, existing_card) ==
    IF existing_card # None /\ existing_card.notes # DEFAULT_NOTES THEN existing_card
    ELSE IF existing_card # None THEN existing_card
    ELSE default_data(card_source)

(* update_card, from "if not extracted" on *)

\* extracted.get(...) on a list, or .get(cat, 1) on a categories value that is no dict
RaisesOnShape(ext) == ext.kind = "array" \/ ext.categories_kind = "array"

\* extracted.get(key, default) for the top-level keys of the reply
get(ext, key, value, default) == IF key \in ext.keys THEN value ELSE default

\* seq[:n]
Prefix(seq, n) == SubSeq(seq, 1, IF Len(seq) < n THEN Len(seq) ELSE n)

\* the reply's categories are not read: every category gets the default
card_data_defaults_only(card_source, ext, t) ==
    [id |-> card_source.id, name |-> card_source.name, issuer |-> card_source.issuer,
     color |-> card_source.color, source_url |-> card_source.url,
     annual_fee |-> get(ext, "annual_fee", ext.annual_fee, 0),
     reward_type |-> get(ext, "reward_type", ext.reward_type, "cashback"),
     point_value |-> get(ext, "point_value", ext.point_value, DEFAULT_POINT_VALUE),
     special_offers |->
         Prefix(get(ext, "special_offers", ext.special_offers, << >>), LIST_CAP),
     credits |-> Prefix(get(ext, "credits", ext.credits, << >>), LIST_CAP),
     categories |-> AllOnes, notes |-> ext.notes, last_updated |-> t]

\* the lists of the reply are stored whole
card_data_uncut(card_source, ext, t) ==
    [id |-> card_source.id, name |-> card_source.name, issuer |-> card_source.issuer,
     color |-> card_source.color, source_url |-> card_source.url,
     annual_fee |-> get(ext, "annual_fee", ext.annual_fee, 0),
     reward_type |-> get(ext, "reward_type", ext.reward_type, "cashback"),
     point_value |-> get(ext, "point_value", ext.point_value, DEFAULT_POINT_VALUE),
     special_offers |-> get(ext, "special_offers", ext.special_offers, << >>),
     credits |-> get(ext, "credits", ext.credits, << >>),
     categories |-> [cat \in CATEGORIES |->
                        IF ext.categories_kind = "absent" \/ ext.categories[cat] = JMissing
                        THEN JNum(1) ELSE ext.categories[cat]],
     notes |-> ext.notes, last_updated |-> t]

card_data(card_source, ext, t) ==
    [id |-> card_source.id, name |-> card_source.name, issuer |-> card_source.issuer,
     color |-> card_source.color, source_url |-> card_source.url,
     annual_fee |-> get(ext, "annual_fee", ext.annual_fee, 0),
     reward_type |-> get(ext, "reward_type", ext.reward_type, "cashback"),
     point_value |-> get(ext, "point_value", ext.point_value, DEFAULT_POINT_VALUE),
     special_offers |->
         Prefix(get(ext, "special_offers", ext.special_offers, << >>), LIST_CAP),
     credits |-> Prefix(get(ext, "credits", ext.credits, << >>), LIST_CAP),
     categories |-> [cat \in CATEGORIES |->
                        IF ext.categories_kind = "absent" \/ ext.categories[cat] = JMissing
                        THEN JNum(1) ELSE ext.categories[cat]],
     notes |-> ext.notes, last_updated |-> t]

\* "if not extracted" is missing: extracted.get on None raises
update_card_result_unchecked(card_source, existing_card, ext, t) ==
    IF Falsy(ext) \/ RaisesOnShape(ext)
    THEN [card_data |-> None, success |-> FALSE, raises |-> TRUE]
    ELSE [card_data |-> card_data(card_source, ext, t),
          success |-> TRUE, raises |-> FALSE]

update_card_result(card_source, existing_card, ext, t) ==
    IF Falsy(ext)
    THEN [card_data |-> get_default_card_data(card_source, existing_card),
          success |-> FALSE, raises |-> FALSE]
    ELSE IF RaisesOnShape(ext)
    THEN [card_data |-> None, success |-> FALSE, raises |-> TRUE]
    ELSE [card_data |-> card_data(card_source, ext, t),
          success |-> TRUE, raises |-> FALSE]

(* extract_with_llm: what the loop over keys_to_try does with one call's outcome *)

\* a successful reply does not end the loop
rotation_step_no_return(outcome) ==
    IF outcome = "malformed" THEN "return_none" ELSE "continue"

\* a malformed reply moves on to the next key
rotation_step_retry_malformed(outcome) ==
    IF outcome = "ok" THEN "return_result" ELSE "continue"

\* a 404 ends the rotation like a malformed reply
rotation_step_stops_on_not_found(outcome) ==
    IF outcome = "ok" THEN "return_result"
    ELSE IF outcome \in {"malformed", "not_found"} THEN "return_none"
    ELSE "continue"

rotation_step(outcome) ==
    IF outcome = "ok" THEN "return_result"
    ELSE IF outcome = "malformed" THEN "return_none"
    ELSE "continue"

---------------------------------------------------------------------------
(* Pages. An anchor is its href attribute and its visible text, as strings;  *)
(* urljoin, urlparse().netloc, lower() and the keyword test are tabulated   *)
(* for the strings that occur.                                              *)

BASE_URL == "https://bank.example/card"

\* 60 characters, and its first 50
LongText == "see the full terms of the card and of its rewards programmes"
LongTextCut == "see the full terms of the card and of its rewards "

TextLen(text) ==
    CASE text = "" -> 0
      [] text = "about us" -> 8
      [] text = "more info" -> 9
      [] text = "REWARDS" -> 7
      [] text = LongText -> 60
      [] text = LongTextCut -> LINK_TEXT_SIZE

\* text[:50]
Cut(text) == IF TextLen(text) > LINK_TEXT_SIZE THEN LongTextCut ELSE text

Anchors ==
    {[href |-> "", text |-> "REWARDS"],
     [href |-> "#rewards", text |-> "REWARDS"],
     [href |-> "javascript:showRewards()", text |-> "REWARDS"],
     [href |-> "https://other.example/rewards", text |-> "REWARDS"],
     [href |-> "/about", text |-> "about us"],
     [href |-> "/about", text |-> "REWARDS"],
     [href |-> "/rewards", text |-> "more info"],
     [href |-> "https://bank.example/rewards", text |-> "more info"],
     [href |-> "/fees", text |-> ""],
     [href |-> "/legal", text |-> LongText]}

\* urljoin(base_url, href) for base_url = BASE_URL
urljoin(href) ==
    CASE href = "/about" -> "https://bank.example/about"
      [] href = "/rewards" -> "https://bank.example/rewards"
      [] href = "/fees" -> "https://bank.example/fees"
      [] href = "/legal" -> "https://bank.example/legal"
      [] href = "" -> BASE_URL
      [] href = "#rewards" -> "https://bank.example/card#rewards"
      [] OTHER -> href

\* urlparse(url).netloc
netloc(url) ==
    CASE url = "https://other.example/rewards" -> "other.example"
      [] url = "javascript:showRewards()" -> ""
      [] OTHER -> "bank.example"

lower(str) == IF str = "REWARDS" THEN "rewards" ELSE str

\* any(kw in str for kw in relevant_keywords), for a lower-case str
contains_keyword(str) ==
    str \in {"rewards", LongText, "https://bank.example/rewards",
             "https://other.example/rewards", "https://bank.example/card#rewards",
             "https://bank.example/fees"}

\* not href or href.startswith('#') or href.startswith('javascript:')
skipped_href(href) == href \in {"", "#rewards", "javascript:showRewards()"}

(* extract_relevant_links: the for loop from anchor k on *)

\* the loop never breaks: every relevant link of the page is returned
RECURSIVE scan_anchors_uncapped(_, _, _, _)
scan_anchors_uncapped(a_tags, k, seen_urls, found) ==
    IF k > Len(a_tags) THEN found
    ELSE LET href == a_tags[k].href
             full_url == urljoin(href)
         IN  IF skipped_href(href) \/ netloc(full_url) # netloc(BASE_URL)
                \/ full_url \in seen_urls
             THEN scan_anchors_uncapped(a_tags, k + 1, seen_urls, found)
             ELSE scan_anchors_uncapped(a_tags, k + 1, seen_urls \cup {full_url},
                     IF contains_keyword(lower(a_tags[k].text))
                        \/ contains_keyword(lower(full_url))
                     THEN Append(found, [url |-> full_url, text |-> Cut(a_tags[k].text)])
                     ELSE found)

\* seen_urls is never consulted: an anchor that repeats a URL is tested again
RECURSIVE scan_anchors_keeps_duplicates(_, _, _, _)
scan_anchors_keeps_duplicates(a_tags, k, seen_urls, found) ==
    IF k > Len(a_tags) THEN found
    ELSE LET href == a_tags[k].href
             text == lower(a_tags[k].text)
             full_url == urljoin(href)
         IN  IF skipped_href(href) \/ netloc(full_url) # netloc(BASE_URL)
             THEN scan_anchors_keeps_duplicates(a_tags, k + 1, seen_urls, found)
             ELSE LET found2 ==
                         IF contains_keyword(text) \/ contains_keyword(lower(full_url))
                         THEN Append(found, [url |-> full_url,
                                             text |-> Cut(a_tags[k].text)])
                         ELSE found
                  IN  IF Len(found2) >= MAX_DEEP_LINKS THEN found2
                      ELSE scan_anchors_keeps_duplicates(a_tags, k + 1, seen_urls, found2)

RECURSIVE scan_anchors(_, _, _, _)
scan_anchors(a_tags, k, seen_urls, found) ==
    IF k > Len(a_tags) THEN found
    ELSE LET href == a_tags[k].href
             text == lower(a_tags[k].text)
             full_url == urljoin(href)
         IN  IF skipped_href(href) THEN scan_anchors(a_tags, k + 1, seen_urls, found)
             ELSE IF netloc(full_url) # netloc(BASE_URL)
             THEN scan_anchors(a_tags, k + 1, seen_urls, found)
             ELSE IF full_url \in seen_urls
             THEN scan_anchors(a_tags, k + 1, seen_urls, found)
             ELSE LET found2 ==
                         IF contains_keyword(text) \/ contains_keyword(lower(full_url))
                         THEN Append(found, [url |-> full_url,
                                             text |-> Cut(a_tags[k].text)])
                         ELSE found
                  IN  IF Len(found2) >= MAX_DEEP_LINKS THEN found2
                      ELSE scan_anchors(a_tags, k + 1, seen_urls \cup {full_url}, found2)

extract_relevant_links(a_tags) == scan_anchors(a_tags, 1, {}, << >>)

(* fetch_page_content *)

NoResponse == [kind |-> "none", status |-> 0, a_tags |-> << >>, text_len |-> 0]

\* client.get raised (no connection, timeout, too many redirects)
TransportFailures ==
    {[kind |-> k, status |-> 0, a_tags |-> << >>, text_len |-> 0] :
        k \in {"ConnectError", "ReadTimeout", "TooManyRedirects"}}

\* the final response has a status that raise_for_status rejects
ErrorStatuses ==
    {[kind |-> "response", status |-> st, a_tags |-> << >>, text_len |-> 0] :
        st \in {403, 404, 500, 503}}

AnchorLists(n) == UNION {[1..m -> Anchors] : m \in 0..n}

\* 200 with a page: its anchors and the length of its visible text
Pages(n, lengths) ==
    {[kind |-> "response", status |-> 200, a_tags |-> a, text_len |-> l] :
        a \in AnchorLists(n), l \in lengths}

NotFetched == [text_len |-> 0 - 1, links |-> << >>, raised |-> "none"]

Min(a, b) == IF a < b THEN a ELSE b

\* the body of the try block: the exception it raises, or what it returns
try_fetch(resp, want_links) ==
    IF resp.kind # "response"
    THEN [text_len |-> 0, links |-> << >>, raised |-> resp.kind]
    ELSE IF resp.status >= 400
    THEN [text_len |-> 0, links |-> << >>, raised |-> "HTTPStatusError"]
    ELSE [text_len |-> Min(resp.text_len, PAGE_TEXT_SIZE),
          links |-> IF want_links THEN extract_relevant_links(resp.a_tags) ELSE << >>,
          raised |-> "none"]

\* only the status error is caught
fetch_page_content_status_only(resp, want_links) ==
    LET r == try_fetch(resp, want_links)
    IN  IF r.raised = "HTTPStatusError"
        THEN [text_len |-> 0, links |-> << >>, raised |-> "none"]
        ELSE r

\* except Exception: return "", []
fetch_page_content(resp, want_links) ==
    LET r == try_fetch(resp, want_links)
    IN  IF r.raised # "none"
        THEN [text_len |-> 0, links |-> << >>, raised |-> "none"]
        ELSE r

NoContent == 0 - 1

(* fetch_deep_links and the assembly in update_card, in lengths *)

\* len(f"\n--- {link_info['text']} ---\n{truncated}")
piece_len(link_info, text_len) ==
    LABEL_MARKS_LEN + TextLen(link_info.text) + Min(text_len, DEEP_LINK_CONTENT_SIZE)

RECURSIVE SumOf(_)
SumOf(seq) == IF seq = << >> THEN 0 ELSE Head(seq) + SumOf(Tail(seq))

\* len("\n".join(combined_content))
joined_len(pieces) ==
    IF pieces = << >> THEN 0 ELSE SumOf(pieces) + (Len(pieces) - 1)

\* the combined content is handed on as it is
assembled_len_uncapped(main_len, link_list, pieces) ==
    IF link_list # << >> /\ joined_len(pieces) > 0
    THEN main_len + SUBPAGES_HEADER_LEN + joined_len(pieces)
    ELSE main_len

\* update_card: len(content) after "if links:"
assembled_len(main_len, link_list, pieces) ==
    IF link_list # << >> /\ joined_len(pieces) > 0
    THEN LET combined == main_len + SUBPAGES_HEADER_LEN + joined_len(pieces)
         IN  IF combined > MAX_TOTAL_CONTENT THEN MAX_TOTAL_CONTENT ELSE combined
    ELSE main_len

---------------------------------------------------------------------------
(* config.get_api_keys. A setting is a string, held as the sequence of its  *)
(* characters; split and strip are computed on the characters.              *)

Chars == {",", " ", "a", "b"}
MaxSettingLen == 4

Strings(n) == UNION {[1..m -> Chars] : m \in 0..n}

CloudProviders == {"gemini", "groq", "mistral"}
Providers == CloudProviders \cup {"ollama"}

\* str.split(","): the stretches between the commas, empty ones included
RECURSIVE split(_)
split(str) ==
    IF \A k \in DOMAIN str : str[k] # "," THEN <<str>>
    ELSE LET at == CHOOSE k \in DOMAIN str :
                      str[k] = "," /\ \A j \in 1..(k - 1) : str[j] # ","
         IN  <<SubSeq(str, 1, at - 1)>> \o split(SubSeq(str, at + 1, Len(str)))

\* str.strip(): without the white space at its two ends
RECURSIVE strip(_)
strip(str) ==
    IF str = << >> THEN str
    ELSE IF Head(str) = " " THEN strip(Tail(str))
    ELSE IF str[Len(str)] = " " THEN strip(SubSeq(str, 1, Len(str) - 1))
    ELSE str

\* [k.strip() for k in setting.split(",") if k.strip()]
RECURSIVE stripped_entries(_)
stripped_entries(entries) ==
    IF entries = << >> THEN << >>
    ELSE (IF strip(Head(entries)) # << >> THEN <<strip(Head(entries))>> ELSE << >>)
         \o stripped_entries(Tail(entries))

\* Config.get_api_keys
get_api_keys(provider, settings) ==
    IF provider \notin CloudProviders THEN << >>
    ELSE IF settings[provider].API_KEYS # << >>
    THEN stripped_entries(split(settings[provider].API_KEYS))
    ELSE IF settings[provider].API_KEY # << >>
    THEN <<settings[provider].API_KEY>>
    ELSE << >>

\* get_api_keys has not been called
NotCalled == <<<<"?">>>>

\* os.getenv(..., ""): nothing is set
NoSettings == [p \in CloudProviders |-> [API_KEYS |-> << >>, API_KEY |-> << >>]]

InitConf ==
    /\ llm_provider = "gemini"
    /\ key_settings = NoSettings
    /\ keys = NotCalled

---------------------------------------------------------------------------
(* The API server's card list (credit_cards.py, main.py) *)

\* load_credit_cards: data.get("cards", []), [] without a file or valid JSON
load_credit_cards(d) == IF d.state = "ok" THEN d.cards ELSE << >>

\* c.get("categories", {}).get(category_id, 0)
rate(c, category_id) ==
    IF c.categories[category_id].t = "num" THEN c.categories[category_id].n ELSE 0

\* sorted(cards, key=rate, reverse=True): cards of equal rate keep their order
RECURSIVE sorted_by_rate(_, _)
sorted_by_rate(cards, category_id) ==
    IF cards = << >> THEN << >>
    ELSE LET n == Len(cards)
             front == sorted_by_rate(SubSeq(cards, 1, n - 1), category_id)
             at == Cardinality({k \in DOMAIN front :
                       rate(front[k], category_id) >= rate(cards[n], category_id)})
         IN  SubSeq(front, 1, at) \o <<cards[n]>> \o SubSeq(front, at + 1, Len(front))

\* get_top_cards_for_category, over the list it reads
get_top_cards_for_category(cards, category_id, limit) ==
    IF cards = << >> THEN << >>
    ELSE SubSeq(sorted_by_rate(cards, category_id), 1, Min(limit, Len(cards)))

\* no reader has been served
NoAnswer == [reader |-> "none", cards |-> << >>, count |-> 0]

\* the server is not running: nothing is loaded
InitCards ==
    /\ credit_cards = << >>
    /\ main_credit_cards = << >>
    /\ reloaded = FALSE
    /\ answer = NoAnswer

---------------------------------------------------------------------------
(* The API server's chat log (main.py) *)

SessionIds == {"s1", "s2"}
Roles == {"user", "assistant"}
MaxMessages == 4

NoSession == [present |-> FALSE, messages |-> << >>]

\* {"created_at": ..., "messages": []}
NewSessionEntry == [present |-> TRUE, messages |-> << >>]

\* chat_sessions.json: no file, text that is not JSON, {"sessions": {...}}
\* (shape "dict") or {"sessions": [...]} (shape "list")
NoChatFile == [shape |-> "missing", sessions |-> [id \in SessionIds |-> NoSession]]
InvalidChatFile == [shape |-> "invalid", sessions |-> [id \in SessionIds |-> NoSession]]
EmptyDict == [shape |-> "dict", sessions |-> [id \in SessionIds |-> NoSession]]
EmptyList == [shape |-> "list", sessions |-> [id \in SessionIds |-> NoSession]]

\* load_chat_sessions: the file's JSON, {"sessions": {}} without a file or
\* without valid JSON
load_chat_sessions(f) == IF f.shape \in {"missing", "invalid"} THEN EmptyDict ELSE f

\* sessions["sessions"][session_id] = ...: a list takes no string index
setitem_raises(sessions) == sessions.shape = "list"

\* log_chat_message up to save_chat_sessions: the store it saves
log_chat_message(f, session_id, role) ==
    LET sessions == load_chat_sessions(f)
        entry == IF sessions.sessions[session_id].present
                 THEN sessions.sessions[session_id]
                 ELSE NewSessionEntry
    IN  [sessions EXCEPT !.sessions[session_id] =
             [entry EXCEPT !.messages = Append(@, role)]]

NoRequest == [op |-> "none", session_id |-> "", role |-> "", result |-> "none"]

Request(op, session_id, role, result) ==
    [op |-> op, session_id |-> session_id, role |-> role, result |-> result]

InitChat ==
    /\ chat_file = NoChatFile
    /\ chat_waiting = {}
    /\ last_request = NoRequest

InitApp ==
    /\ InitConf
    /\ InitCards
    /\ InitChat

---------------------------------------------------------------------------
(* The configuration main() finds (config.py) *)

\* DATA_DIR holds both cards.json and card_sources.json: without the directory
\* neither file exists
Environments(d) ==
    {e \in [cloud : BOOLEAN, data_dir : BOOLEAN, catalog : BOOLEAN] :
        ~e.data_dir => (d.state = "missing" /\ ~e.catalog)}

\* get_api_keys: [] for a provider that is not a cloud provider
KeyCounts(e) == IF e.cloud THEN 0..MaxKeys ELSE {0}

\* config.validate: the list of errors
validate(e, n) ==
    (IF e.cloud /\ n = 0 THEN {"api_key_not_set"} ELSE {}) \cup
    (IF ~e.data_dir THEN {"data_directory_not_found"} ELSE {})

\* nothing is checked before the loop
main_start_unchecked(e, n) == "proceed"

\* main() up to the loading of the catalog: return, raise or go on
main_start(e, n) ==
    IF validate(e, n) # {} THEN "return"
    ELSE IF e.cloud /\ n = 0 THEN "return"
    ELSE IF ~e.catalog THEN "raise"
    ELSE "proceed"

---------------------------------------------------------------------------
(* State of a run *)

Positions == 1..NumCards

InSeq(seq, x) == \E k \in DOMAIN seq : seq[k] = x

\* The outcome of catalog card i in this run, read off main()'s three lists
Outcome(i) ==
    IF InSeq(updated_cards, i) THEN "MERGED"
    ELSE IF InSeq(failed_cards, i) THEN "FAILED_FALLBACK"
    ELSE IF InSeq(skipped_cards, i) THEN "SKIPPED"
    ELSE "PENDING"

Running == {"loop", "fetch_main", "fetch_sub", "extract", "save_open", "save_dump",
            "sleep", "final_open", "final_dump", "write_log"}
Stopped == {"idle", "done", "aborted", "killed", "refused"}

NoRun == [done |-> FALSE, start_time |-> NoTimestamp,
          outcome |-> [i \in Positions |-> "PENDING"],
          cards |-> [i \in Positions |-> None]]

\* A network operation of the card at position i: the request for its main
\* page, for its n-th relevant link, or the completion call with the n-th key
Operation(op, i, n) == [op |-> op, card |-> i, n |-> n]

cardVars == <<links, link_idx, key_idx, call_log, extracted, main_content>>
tallyVars == <<updated_cards, failed_cards, skipped_cards>>
runVars == <<run, env, api_keys, existing_cards, start_disk, start_time, prev,
             log, start_log, scrape_delay>>

(* A dataset file left by earlier runs: per catalog card no record, a record *)
(* refreshed today, a record refreshed on an earlier day, or placeholder data *)
PriorChoices(i) == {None, RealRecord(i, EarlierToday), RealRecord(i, OldTime),
                    default_data(Sources[i])}

InitialDisks ==
    {MissingFile} \cup
    {output_data(data, IF \E i \in Positions : data[i].last_updated = EarlierToday
                       THEN EarlierToday ELSE OldTime) :
        data \in {d \in [Positions -> UNION {PriorChoices(i) : i \in Positions}] :
                    \A i \in Positions : d[i] \in PriorChoices(i)}}

Init ==
    /\ disk \in InitialDisks
    /\ now = StartTime
    /\ pc = "idle"
    /\ run = 0
    /\ raised = "none"
    /\ env = [cloud |-> TRUE, data_dir |-> TRUE, catalog |-> TRUE]
    /\ api_keys = 1
    /\ existing_cards = [id \in Ids |-> None]
    /\ cards_data = [i \in Positions |-> None]
    /\ idx = 1
    /\ updated_cards = << >>
    /\ failed_cards = << >>
    /\ skipped_cards = << >>
    /\ links = 0
    /\ link_idx = 1
    /\ key_idx = 1
    /\ main_content = NoContent
    /\ call_log = << >>
    /\ extracted = NoReply
    /\ touched = {}
    /\ persisted = {}
    /\ start_disk = disk
    /\ start_time = now
    /\ prev = NoRun
    /\ log = << >>
    /\ start_log = << >>
    /\ in_flight = {}
    /\ scrape_delay = DEFAULT_SCRAPE_DELAY
    /\ delay = NoDelay
    /\ response = NoResponse
    /\ extract_links = FALSE
    /\ fetched = NotFetched
    /\ combined_content = << >>
    /\ deep_log = << >>
    /\ content = NoContent
    /\ InitApp

---------------------------------------------------------------------------
(* main(), up to the for loop: the configuration is valid, the existing     *)
(* dataset and the catalog are loaded, cards_data is filled from the        *)
(* existing records.                                                        *)
StartRun ==
    /\ pc \in Stopped
    /\ run < MaxRuns
    /\ run' = run + 1
    /\ \E e \in Environments(disk) : \E n \in KeyCounts(e) :
          /\ main_start(e, n) = "proceed"
          /\ env' = e
          /\ api_keys' = n
    /\ existing_cards' = load_existing_cards(disk)
    /\ cards_data' = [i \in Positions |-> existing_cards'[Sources[i].id]]
    /\ idx' = 1
    /\ updated_cards' = << >>
    /\ failed_cards' = << >>
    /\ skipped_cards' = << >>
    /\ links' = 0
    /\ link_idx' = 1
    /\ key_idx' = 1
    /\ main_content' = NoContent
    /\ call_log' = << >>
    /\ extracted' = NoReply
    /\ touched' = {}
    /\ persisted' = {}
    /\ raised' = "none"
    /\ start_disk' = disk
    /\ start_time' = now
    /\ prev' = IF pc # "done" THEN NoRun
               ELSE [done |-> TRUE, start_time |-> start_time,
                     outcome |-> [i \in Positions |-> Outcome(i)],
                     cards |-> cards_data]
    /\ start_log' = log
    /\ in_flight' = {}
    /\ delay' = NoDelay
    /\ pc' = "loop"
    /\ UNCHANGED <<disk, now, log, scrape_delay>>
    /\ UNCHANGED <<pageVars, appVars>>

\* The locals of update_card and extract_with_llm are gone once update_card
\* has returned and main() has gone on to the save
ResetCard ==
    /\ links' = 0
    /\ link_idx' = 1
    /\ key_idx' = 1
    /\ main_content' = NoContent
    /\ call_log' = << >>
    /\ extracted' = NoReply

\* main() returns on a configuration error, or open(SOURCES_FILE) raises, before
\* the loop: the process ends with nothing fetched, called or written
RefuseRun ==
    /\ pc \in Stopped
    /\ run < MaxRuns
    /\ run' = run + 1
    /\ \E e \in Environments(disk) : \E n \in KeyCounts(e) :
          /\ main_start(e, n) # "proceed"
          /\ env' = e
          /\ api_keys' = n
          /\ raised' = IF main_start(e, n) = "raise" THEN "FileNotFoundError" ELSE "none"
    /\ existing_cards' = [id \in Ids |-> None]
    /\ cards_data' = [i \in Positions |-> None]
    /\ idx' = 1
    /\ updated_cards' = << >>
    /\ failed_cards' = << >>
    /\ skipped_cards' = << >>
    /\ ResetCard
    /\ touched' = {}
    /\ persisted' = {}
    /\ start_disk' = disk
    /\ start_time' = now
    /\ prev' = NoRun
    /\ start_log' = log
    /\ in_flight' = {}
    /\ delay' = NoDelay
    /\ pc' = "refused"
    /\ UNCHANGED <<disk, now, log, scrape_delay>>
    /\ UNCHANGED <<pageVars, appVars>>

\* the card is counted as skipped but its page is requested all the same
SkipCard_fetches ==
    /\ pc = "loop"
    /\ idx <= NumCards
    /\ LET existing_card == existing_cards[Sources[idx].id]
       IN  existing_card # None /\ is_updated_today(existing_card, now)
    /\ skipped_cards' = Append(skipped_cards, idx)
    /\ touched' = touched \cup {idx}
    /\ idx' = idx + 1
    /\ UNCHANGED <<disk, now, pc, raised, cards_data, updated_cards, failed_cards,
                   persisted, cardVars, runVars>>
    /\ UNCHANGED <<in_flight, delay, pageVars, appVars>>

\* for idx, card_source in enumerate(sources["cards"]): already updated today
SkipCard ==
    /\ pc = "loop"
    /\ idx <= NumCards
    /\ LET existing_card == existing_cards[Sources[idx].id]
       IN  existing_card # None /\ is_updated_today(existing_card, now)
    /\ skipped_cards' = Append(skipped_cards, idx)
    /\ idx' = idx + 1
    /\ UNCHANGED <<disk, now, pc, raised, cards_data, updated_cards, failed_cards,
                   touched, persisted, cardVars, runVars>>
    /\ UNCHANGED <<in_flight, delay, pageVars, appVars>>

\* update_card is called and sends the request for the main page
BeginCard ==
    /\ pc = "loop"
    /\ idx <= NumCards
    /\ LET existing_card == existing_cards[Sources[idx].id]
       IN  ~(existing_card # None /\ is_updated_today(existing_card, now))
    /\ touched' = touched \cup {idx}
    /\ in_flight' = {Operation("main", idx, 0)}
    /\ pc' = "fetch_main"
    /\ UNCHANGED <<disk, now, raised, cards_data, idx, tallyVars, persisted,
                   cardVars, runVars>>
    /\ UNCHANGED <<delay, pageVars, appVars>>

\* the record is stored counting from the end of cards_data
Finish_misplaced(res) ==
    IF res.raises
    THEN /\ pc' = "aborted"
         /\ raised' = "AttributeError"
         /\ UNCHANGED <<cards_data, tallyVars>>
    ELSE /\ cards_data' = [cards_data EXCEPT ![NumCards + 1 - idx] = res.card_data]
         /\ IF res.success
            THEN updated_cards' = Append(updated_cards, idx)
                 /\ UNCHANGED failed_cards
            ELSE failed_cards' = Append(failed_cards, idx)
                 /\ UNCHANGED updated_cards
         /\ pc' = "save_open"
         /\ UNCHANGED <<raised, skipped_cards>>

\* the record is appended to cards_data instead of replacing the card's slot
Finish_appended(res) ==
    IF res.raises
    THEN /\ pc' = "aborted"
         /\ raised' = "AttributeError"
         /\ UNCHANGED <<cards_data, tallyVars>>
    ELSE /\ cards_data' = Append(cards_data, res.card_data)
         /\ IF res.success
            THEN updated_cards' = Append(updated_cards, idx)
                 /\ UNCHANGED failed_cards
            ELSE failed_cards' = Append(failed_cards, idx)
                 /\ UNCHANGED updated_cards
         /\ pc' = "save_open"
         /\ UNCHANGED <<raised, skipped_cards>>

\* main(): cards_data[idx] = card_data, the card is counted, or the exception
\* of update_card leaves main()
Finish(res) ==
    IF res.raises
    THEN /\ pc' = "aborted"
         /\ raised' = "AttributeError"
         /\ UNCHANGED <<cards_data, tallyVars>>
    ELSE /\ cards_data' = [cards_data EXCEPT ![idx] = res.card_data]
         /\ IF res.success
            THEN updated_cards' = Append(updated_cards, idx)
                 /\ UNCHANGED failed_cards
            ELSE failed_cards' = Append(failed_cards, idx)
                 /\ UNCHANGED updated_cards
         /\ pc' = "save_open"
         /\ UNCHANGED <<raised, skipped_cards>>

\* the content is not tested: update_card goes on with the links and the
\* extraction as if the page had text
FetchMainFail_goes_on ==
    /\ pc = "fetch_main"
    /\ \E k \in 0..MAX_DEEP_LINKS :
          /\ links' = k
          /\ pc' = IF k > 0 THEN "fetch_sub" ELSE "extract"
          /\ in_flight' = IF k > 0 THEN {Operation("sub", idx, 1)} ELSE {}
    /\ link_idx' = 1
    /\ key_idx' = 1
    /\ main_content' = 0
    /\ UNCHANGED <<disk, now, raised, cards_data, idx, tallyVars, touched, persisted,
                   call_log, extracted, runVars>>
    /\ UNCHANGED <<delay, pageVars, appVars>>

\* fetch_page_content returned "" (with or without links): update_card returns
\* the fallback
FetchMainFail ==
    /\ pc = "fetch_main"
    /\ Finish([card_data |-> get_default_card_data(Sources[idx],
                                                   existing_cards[Sources[idx].id]),
               success |-> FALSE, raises |-> FALSE])
    /\ \E k \in 0..MAX_DEEP_LINKS : links' = k
    /\ main_content' = 0
    /\ UNCHANGED <<disk, now, idx, touched, persisted, link_idx, key_idx, call_log,
                   extracted, runVars>>
    /\ in_flight' = {}
    /\ UNCHANGED <<delay, pageVars, appVars>>

\* the loop goes on for one more call after the last key
keys_to_try_one_more == (IF env.cloud THEN api_keys ELSE 1) + 1

\* keys_to_try = API_KEYS if config.is_cloud_provider() else [""]
keys_to_try == IF env.cloud THEN api_keys ELSE 1

\* extract_with_llm is entered: the call with the first key goes out, unless a
\* cloud provider has no key
first_call ==
    IF env.cloud /\ api_keys = 0 THEN {} ELSE {Operation("llm", idx, 1)}

\* the requests for all relevant links are sent together (asyncio.gather)
FetchMainOk_gather ==
    /\ pc = "fetch_main"
    /\ \E k \in 0..MAX_DEEP_LINKS :
          /\ links' = k
          /\ pc' = IF k > 0 THEN "fetch_sub" ELSE "extract"
          /\ in_flight' = IF k > 0 THEN {Operation("sub", idx, j) : j \in 1..k}
                           ELSE first_call
    /\ link_idx' = 1
    /\ key_idx' = 1
    /\ main_content' = 1
    /\ UNCHANGED <<disk, now, raised, cards_data, idx, tallyVars, touched, persisted,
                   call_log, extracted, runVars>>
    /\ UNCHANGED <<delay, pageVars, appVars>>

\* fetch_page_content returned text and up to MAX_DEEP_LINKS relevant links
FetchMainOk ==
    /\ pc = "fetch_main"
    /\ \E k \in 0..MAX_DEEP_LINKS :
          /\ links' = k
          /\ pc' = IF k > 0 THEN "fetch_sub" ELSE "extract"
          /\ in_flight' = IF k > 0 THEN {Operation("sub", idx, 1)} ELSE first_call
    /\ link_idx' = 1
    /\ key_idx' = 1
    /\ main_content' = 1
    /\ UNCHANGED <<disk, now, raised, cards_data, idx, tallyVars, touched, persisted,
                   call_log, extracted, runVars>>
    /\ UNCHANGED <<delay, pageVars, appVars>>

\* fetch_deep_links: one sub-link is fetched (its failure is skipped); after the
\* last one update_card goes on to extract_with_llm and links is not read again
FetchSub ==
    /\ pc = "fetch_sub"
    /\ IF link_idx = links
       THEN /\ pc' = "extract" /\ links' = 0 /\ link_idx' = 1
            /\ in_flight' = first_call
       ELSE /\ pc' = "fetch_sub" /\ link_idx' = link_idx + 1 /\ UNCHANGED links
            /\ in_flight' = {Operation("sub", idx, link_idx + 1)}
    /\ UNCHANGED <<disk, now, raised, cards_data, idx, tallyVars, touched, persisted,
                   key_idx, call_log, extracted, main_content, runVars>>
    /\ UNCHANGED <<delay, pageVars, appVars>>

\* extract_with_llm: one call_llm_with_key with the key at key_idx, and what
\* follows it without another await; without content, or with no key for a
\* cloud provider, it returns None without a call
LLMCall ==
    /\ pc = "extract"
    /\ IF main_content = 0 \/ (env.cloud /\ api_keys = 0)
       THEN /\ extracted' = NoReply
            /\ Finish(update_card_result(Sources[idx], existing_cards[Sources[idx].id],
                                         extracted', now))
            /\ in_flight' = {}
            /\ UNCHANGED <<key_idx, call_log>>
       ELSE \E outcome \in Outcomes :
            \E reply \in IF outcome = "ok" THEN Replies ELSE {NoReply} :
              LET step == rotation_step(outcome)
              IN  /\ call_log' = Append(call_log, [key |-> key_idx, outcome |-> outcome,
                                                   reply |-> reply])
                  /\ IF step = "continue" /\ key_idx < keys_to_try
                     THEN /\ key_idx' = key_idx + 1
                          /\ in_flight' = {Operation("llm", idx, key_idx + 1)}
                          /\ UNCHANGED <<pc, raised, cards_data, tallyVars, extracted>>
                     ELSE /\ extracted' = IF step = "return_result" THEN reply
                                          ELSE NoReply
                          /\ Finish(update_card_result(Sources[idx],
                                                       existing_cards[Sources[idx].id],
                                                       extracted', now))
                          /\ in_flight' = {}
                          /\ UNCHANGED key_idx
    /\ UNCHANGED <<disk, now, idx, touched, persisted, links, link_idx, main_content,
                   runVars>>
    /\ UNCHANGED <<delay, pageVars, appVars>>

\* with open(OUTPUT_FILE, 'w'): the file is truncated
SaveOpen ==
    /\ pc \in {"save_open", "final_open"}
    /\ disk' = PartialFile
    /\ pc' = IF pc = "save_open" THEN "save_dump" ELSE "final_dump"
    /\ ResetCard
    /\ UNCHANGED <<now, raised, cards_data, idx, tallyVars, touched, persisted, runVars>>
    /\ UNCHANGED <<in_flight, delay, pageVars, appVars>>

\* open raises: the exception leaves main()
SaveOpenFail ==
    /\ pc \in {"save_open", "final_open"}
    /\ pc' = "aborted"
    /\ raised' = "OSError"
    /\ ResetCard
    /\ UNCHANGED <<disk, now, cards_data, idx, tallyVars, touched, persisted, runVars>>
    /\ UNCHANGED <<in_flight, delay, pageVars, appVars>>

\* the delay is always the shorter one when several keys are configured
inter_card_delay_fixed(configured, n_keys) ==
    IF n_keys > 1 THEN ROTATION_DELAY ELSE configured

\* delay = config.SCRAPE_DELAY; if len(API_KEYS) > 1 and delay > 60: delay = 60
inter_card_delay(configured, n_keys) ==
    IF n_keys > 1 /\ configured > ROTATION_DELAY THEN ROTATION_DELAY ELSE configured

\* json.dump(output_data, f) completes, and after a checkpoint the delay before
\* the next card is computed
SaveDump ==
    /\ pc \in {"save_dump", "final_dump"}
    /\ disk' = output_data(cards_data, now)
    /\ persisted' = {i \in Positions : Outcome(i) \in {"MERGED", "FAILED_FALLBACK"}}
    /\ pc' = IF pc = "save_dump" THEN "sleep" ELSE "write_log"
    /\ UNCHANGED <<now, raised, cards_data, idx, tallyVars, touched, cardVars, runVars>>
    /\ delay' = IF pc = "save_dump" THEN inter_card_delay(scrape_delay, api_keys)
                 ELSE delay
    /\ UNCHANGED <<in_flight, pageVars, appVars>>

\* the failure of the write is swallowed and main() goes on
SaveDumpFail_swallowed ==
    /\ pc \in {"save_dump", "final_dump"}
    /\ pc' = IF pc = "save_dump" THEN "sleep" ELSE "write_log"
    /\ UNCHANGED <<disk, now, raised, cards_data, idx, tallyVars, touched, persisted,
                   cardVars, runVars>>
    /\ UNCHANGED <<in_flight, delay, pageVars, appVars>>

\* the write fails part-way: the exception leaves main()
SaveDumpFail ==
    /\ pc \in {"save_dump", "final_dump"}
    /\ pc' = "aborted"
    /\ raised' = "OSError"
    /\ ResetCard
    /\ UNCHANGED <<disk, now, cards_data, idx, tallyVars, touched, persisted, runVars>>
    /\ UNCHANGED <<in_flight, delay, pageVars, appVars>>

\* the entry write_update_log builds from the two lists it is given
log_entry(updated, failed) == [updated |-> updated, failed |-> failed]

\* main() after the final save: if updated_cards or failed_cards, write_update_log
\* appends one entry to LOG_FILE; then "Update complete" is printed
WriteLog ==
    /\ pc = "write_log"
    /\ log' = IF updated_cards # << >> \/ failed_cards # << >>
               THEN Append(log, log_entry(updated_cards, failed_cards))
               ELSE log
    /\ pc' = "done"
    /\ UNCHANGED <<disk, now, raised, cards_data, idx, tallyVars, touched, persisted,
                   cardVars, run, env, api_keys, existing_cards, start_disk,
                   start_time, prev, start_log, scrape_delay>>
    /\ UNCHANGED <<in_flight, delay, pageVars, appVars>>

\* open(LOG_FILE, 'a') raises: the exception leaves main()
WriteLogFail ==
    /\ pc = "write_log"
    /\ updated_cards # << >> \/ failed_cards # << >>
    /\ pc' = "aborted"
    /\ raised' = "OSError"
    /\ UNCHANGED <<disk, now, cards_data, idx, tallyVars, touched, persisted,
                   cardVars, runVars>>
    /\ UNCHANGED <<in_flight, delay, pageVars, appVars>>

\* await asyncio.sleep(delay) returns and the for loop moves on
Sleep ==
    /\ pc = "sleep"
    /\ idx' = idx + 1
    /\ pc' = "loop"
    /\ UNCHANGED <<disk, now, raised, cards_data, tallyVars, touched, persisted,
                   cardVars, runVars>>
    /\ UNCHANGED <<in_flight, delay, pageVars, appVars>>

\* the for loop is exhausted: final save
EndLoop ==
    /\ pc = "loop"
    /\ idx > NumCards
    /\ pc' = "final_open"
    /\ UNCHANGED <<disk, now, raised, cards_data, idx, tallyVars, touched, persisted,
                   cardVars, runVars>>
    /\ UNCHANGED <<in_flight, delay, pageVars, appVars>>

\* the process is killed: what it held in memory is gone, the file stays as it is
Crash ==
    /\ pc \in Running
    /\ pc' = "killed"
    /\ existing_cards' = [id \in Ids |-> None]
    /\ cards_data' = [i \in Positions |-> None]
    /\ idx' = 1
    /\ updated_cards' = << >>
    /\ failed_cards' = << >>
    /\ skipped_cards' = << >>
    /\ ResetCard
    /\ UNCHANGED <<disk, now, raised, run, env, api_keys, touched, persisted,
                   start_disk, start_time, prev, log, start_log, scrape_delay>>
    /\ in_flight' = {}
    /\ delay' = NoDelay
    /\ UNCHANGED <<pageVars, appVars>>

\* time passes while the script awaits, or between runs
Tick ==
    /\ pc \in {"fetch_main", "extract", "sleep"} \cup Stopped
    /\ now < MaxTime
    /\ now' = now + 1
    /\ UNCHANGED <<disk, pc, raised, cards_data, idx, tallyVars, touched, persisted,
                   cardVars, runVars>>
    /\ UNCHANGED <<in_flight, delay, pageVars, appVars>>

Next ==
    \/ StartRun
    \/ RefuseRun
    \/ SkipCard
    \/ BeginCard
    \/ FetchMainFail
    \/ FetchMainOk
    \/ FetchSub
    \/ LLMCall
    \/ SaveOpen
    \/ SaveOpenFail
    \/ SaveDump
    \/ SaveDumpFail
    \/ WriteLog
    \/ WriteLogFail
    \/ Sleep
    \/ EndLoop
    \/ Crash
    \/ Tick

Spec == Init /\ [][Next]_vars

---------------------------------------------------------------------------
(* extract_with_llm on its own: the first card of a first run has been      *)
(* fetched and update_card calls extract_with_llm, for any pool size and    *)
(* any dataset file in which that card is not dated today.                  *)
InitExtract ==
    /\ disk \in InitialDisks
    /\ now = StartTime
    /\ pc = "extract"
    /\ run = 1
    /\ raised = "none"
    /\ \E e \in Environments(disk) : \E n \in KeyCounts(e) :
          /\ main_start(e, n) = "proceed"
          /\ env = e
          /\ api_keys = n
    /\ existing_cards = load_existing_cards(disk)
    /\ ~is_updated_today(existing_cards[Sources[1].id], now)
    /\ cards_data = [i \in Positions |-> existing_cards[Sources[i].id]]
    /\ idx = 1
    /\ updated_cards = << >>
    /\ failed_cards = << >>
    /\ skipped_cards = << >>
    /\ links = 0
    /\ link_idx = 1
    /\ key_idx = 1
    /\ main_content = 1
    /\ call_log = << >>
    /\ extracted = NoReply
    /\ touched = {1}
    /\ persisted = {}
    /\ start_disk = disk
    /\ start_time = now
    /\ prev = NoRun
    /\ log = << >>
    /\ start_log = << >>
    /\ in_flight = {Operation("llm", 1, 1)}
    /\ scrape_delay = DEFAULT_SCRAPE_DELAY
    /\ delay = NoDelay
    /\ response = NoResponse
    /\ extract_links = FALSE
    /\ fetched = NotFetched
    /\ combined_content = << >>
    /\ deep_log = << >>
    /\ content = NoContent
    /\ InitApp

NextExtract ==
    \/ LLMCall
    \/ Tick

SpecExtract == InitExtract /\ [][NextExtract]_vars

---------------------------------------------------------------------------
(* fetch_page_content on its own: one request, for any answer of the server  *)
(* and either value of extract_links.                                       *)
InitFetch ==
    /\ disk = MissingFile
    /\ now = StartTime
    /\ pc = "idle"
    /\ run = 0
    /\ raised = "none"
    /\ env = [cloud |-> TRUE, data_dir |-> TRUE, catalog |-> TRUE]
    /\ api_keys = 1
    /\ existing_cards = [id \in Ids |-> None]
    /\ cards_data = [i \in Positions |-> None]
    /\ idx = 1
    /\ updated_cards = << >>
    /\ failed_cards = << >>
    /\ skipped_cards = << >>
    /\ links = 0
    /\ link_idx = 1
    /\ key_idx = 1
    /\ main_content = NoContent
    /\ call_log = << >>
    /\ extracted = NoReply
    /\ touched = {}
    /\ persisted = {}
    /\ start_disk = disk
    /\ start_time = now
    /\ prev = NoRun
    /\ log = << >>
    /\ start_log = << >>
    /\ in_flight = {}
    /\ scrape_delay = DEFAULT_SCRAPE_DELAY
    /\ delay = NoDelay
    /\ response \in TransportFailures \cup ErrorStatuses
                    \cup Pages(MaxAnchors, {0, 3000, 5000})
    /\ extract_links \in BOOLEAN
    /\ fetched = NotFetched
    /\ combined_content = << >>
    /\ deep_log = << >>
    /\ content = NoContent
    /\ InitApp

\* the request fails or is answered with an error status
FetchPageFails ==
    /\ fetched = NotFetched
    /\ try_fetch(response, extract_links).raised # "none"
    /\ fetched' = fetch_page_content(response, extract_links)
    /\ UNCHANGED <<mainVars, response, extract_links, combined_content, deep_log,
                   content, appVars>>

\* the request is answered with a page
FetchPage ==
    /\ fetched = NotFetched
    /\ try_fetch(response, extract_links).raised = "none"
    /\ fetched' = fetch_page_content(response, extract_links)
    /\ UNCHANGED <<mainVars, response, extract_links, combined_content, deep_log,
                   content, appVars>>

NextFetch ==
    \/ FetchPageFails
    \/ FetchPage

SpecFetch == InitFetch /\ [][NextFetch]_vars

---------------------------------------------------------------------------
(* The content of one card on its own: fetch_page_content has returned the  *)
(* main page's text and up to MAX_DEEP_LINKS links, fetch_deep_links        *)
(* fetches them one by one, update_card assembles the content.              *)
LinkUrls == <<"https://bank.example/rewards", "https://bank.example/fees",
              "https://bank.example/legal">>

LinkLists ==
    UNION {{[k \in 1..m |-> [url |-> LinkUrls[k], text |-> t[k]]] :
               t \in [1..m -> {"", "more info", LongTextCut}]} : m \in 0..MAX_DEEP_LINKS}

InitAssemble ==
    /\ disk = MissingFile
    /\ now = StartTime
    /\ pc = "idle"
    /\ run = 0
    /\ raised = "none"
    /\ env = [cloud |-> TRUE, data_dir |-> TRUE, catalog |-> TRUE]
    /\ api_keys = 1
    /\ existing_cards = [id \in Ids |-> None]
    /\ cards_data = [i \in Positions |-> None]
    /\ idx = 1
    /\ updated_cards = << >>
    /\ failed_cards = << >>
    /\ skipped_cards = << >>
    /\ links = 0
    /\ link_idx = 1
    /\ key_idx = 1
    /\ main_content = NoContent
    /\ call_log = << >>
    /\ extracted = NoReply
    /\ touched = {}
    /\ persisted = {}
    /\ start_disk = disk
    /\ start_time = now
    /\ prev = NoRun
    /\ log = << >>
    /\ start_log = << >>
    /\ in_flight = {}
    /\ scrape_delay = DEFAULT_SCRAPE_DELAY
    /\ delay = NoDelay
    /\ response = NoResponse
    /\ extract_links = FALSE
    /\ \E l \in {1, 3000, PAGE_TEXT_SIZE} : \E ll \in LinkLists :
          fetched = [text_len |-> l, links |-> ll, raised |-> "none"]
    /\ combined_content = << >>
    /\ deep_log = << >>
    /\ content = NoContent
    /\ InitApp

\* a sub-link that yields nothing ends the loop over the links
FetchDeepLink_gives_up ==
    /\ content = NoContent
    /\ link_idx <= Len(fetched.links)
    /\ \E resp \in TransportFailures \cup ErrorStatuses
                      \cup Pages(0, {0, 700, DEEP_LINK_CONTENT_SIZE, 5000}) :
          LET sub == fetch_page_content(resp, FALSE)
          IN  /\ response' = resp
              /\ deep_log' = Append(deep_log, [link |-> link_idx,
                                               text_len |-> sub.text_len])
              /\ combined_content' =
                    IF sub.text_len > 0
                    THEN Append(combined_content,
                                piece_len(fetched.links[link_idx], sub.text_len))
                    ELSE combined_content
              /\ link_idx' = IF sub.text_len > 0 THEN link_idx + 1
                             ELSE Len(fetched.links) + 1
    /\ UNCHANGED <<disk, now, pc, run, raised, env, api_keys, existing_cards,
                   cards_data, idx, tallyVars, links, key_idx, call_log, extracted,
                   main_content,
                   touched, persisted, start_disk, start_time, prev, log, start_log,
                   in_flight, scrape_delay, delay, extract_links, fetched, content,
                   appVars>>

\* fetch_deep_links: the next link is fetched; its text, if any, is cut and
\* appended under the link's label
FetchDeepLink ==
    /\ content = NoContent
    /\ link_idx <= Len(fetched.links)
    /\ \E resp \in TransportFailures \cup ErrorStatuses
                      \cup Pages(0, {0, 700, DEEP_LINK_CONTENT_SIZE, 5000}) :
          LET sub == fetch_page_content(resp, FALSE)
          IN  /\ response' = resp
              /\ deep_log' = Append(deep_log, [link |-> link_idx,
                                               text_len |-> sub.text_len])
              /\ combined_content' =
                    IF sub.text_len > 0
                    THEN Append(combined_content,
                                piece_len(fetched.links[link_idx], sub.text_len))
                    ELSE combined_content
    /\ link_idx' = link_idx + 1
    /\ UNCHANGED <<disk, now, pc, run, raised, env, api_keys, existing_cards,
                   cards_data, idx, tallyVars, links, key_idx, call_log, extracted,
                   main_content,
                   touched, persisted, start_disk, start_time, prev, log, start_log,
                   in_flight, scrape_delay, delay, extract_links, fetched, content,
                   appVars>>

\* update_card: the content is put together and handed to extract_with_llm
AssembleContent ==
    /\ content = NoContent
    /\ link_idx > Len(fetched.links)
    /\ content' = assembled_len(fetched.text_len, fetched.links, combined_content)
    /\ UNCHANGED <<mainVars, response, extract_links, fetched, combined_content,
                   deep_log, appVars>>

NextAssemble ==
    \/ FetchDeepLink
    \/ AssembleContent

SpecAssemble == InitAssemble /\ [][NextAssemble]_vars

---------------------------------------------------------------------------
(* load_existing_cards on its own: main() has found a valid configuration   *)
(* and loads the dataset file, whatever that file is.                       *)

\* the file cannot be opened for reading, or its bytes cannot be decoded
UnreadableFile == [state |-> "unreadable", last_updated |-> NoTimestamp, cards |-> << >>]
\* valid JSON whose top level is a list
ArrayFile == [state |-> "json_array", last_updated |-> NoTimestamp, cards |-> << >>]
\* a JSON object without "cards"
NoCardsFile == [state |-> "no_cards_key", last_updated |-> OldTime, cards |-> << >>]

\* a dataset in which a card entry has no "id"
CardWithoutIdFiles ==
    {[d EXCEPT !.state = "card_without_id"] :
        d \in {f \in InitialDisks : Len(f.cards) >= 1}}

DatasetFiles ==
    InitialDisks \cup {PartialFile, UnreadableFile, ArrayFile, NoCardsFile}
                 \cup CardWithoutIdFiles

InitLoad ==
    /\ disk \in DatasetFiles
    /\ now = StartTime
    /\ pc = "idle"
    /\ run = 0
    /\ raised = "none"
    /\ \E e \in Environments(disk) : \E n \in KeyCounts(e) :
          /\ main_start(e, n) = "proceed"
          /\ env = e
          /\ api_keys = n
    /\ existing_cards = [id \in Ids |-> None]
    /\ cards_data = [i \in Positions |-> None]
    /\ idx = 1
    /\ updated_cards = << >>
    /\ failed_cards = << >>
    /\ skipped_cards = << >>
    /\ links = 0
    /\ link_idx = 1
    /\ key_idx = 1
    /\ main_content = NoContent
    /\ call_log = << >>
    /\ extracted = NoReply
    /\ touched = {}
    /\ persisted = {}
    /\ start_disk = disk
    /\ start_time = now
    /\ prev = NoRun
    /\ log = << >>
    /\ start_log = << >>
    /\ in_flight = {}
    /\ scrape_delay = DEFAULT_SCRAPE_DELAY
    /\ delay = NoDelay
    /\ response = NoResponse
    /\ extract_links = FALSE
    /\ fetched = NotFetched
    /\ combined_content = << >>
    /\ deep_log = << >>
    /\ content = NoContent
    /\ InitApp

\* load_existing_cards returns and main() goes on to the loop
LoadCards ==
    /\ pc = "idle"
    /\ load_raises(disk) = "none"
    /\ run' = run + 1
    /\ existing_cards' = load_existing_cards(disk)
    /\ cards_data' = [i \in Positions |-> existing_cards'[Sources[i].id]]
    /\ pc' = "loop"
    /\ UNCHANGED <<disk, now, raised, env, api_keys, idx, tallyVars, cardVars,
                   touched, persisted, start_disk, start_time, prev, log, start_log,
                   in_flight, scrape_delay, delay, pageVars, appVars>>

\* an exception leaves load_existing_cards, and main()
LoadCardsRaises ==
    /\ pc = "idle"
    /\ load_raises(disk) # "none"
    /\ run' = run + 1
    /\ raised' = load_raises(disk)
    /\ pc' = "aborted"
    /\ UNCHANGED <<disk, now, env, api_keys, existing_cards, cards_data, idx,
                   tallyVars, cardVars, touched, persisted, start_disk, start_time,
                   prev, log, start_log, in_flight, scrape_delay, delay, pageVars, appVars>>

NextLoad ==
    \/ LoadCards
    \/ LoadCardsRaises

SpecLoad == InitLoad /\ [][NextLoad]_vars

---------------------------------------------------------------------------
(* One run over a dataset file that was not written for this catalog: its   *)
(* records may repeat an id, come in any order, or carry the id of a card    *)
(* that the catalog no longer holds.                                        *)

\* a record whose id is not in the catalog
ForeignRecord == [RealRecord(1, OldTime) EXCEPT !.id = NumCards + 1]

\* a placeholder written when the catalog listed another url for the card
StalePlaceholder == [default_data(Sources[2]) EXCEPT !.source_url = 250]

FileRecords == {RealRecord(1, OldTime), RealRecord(1, EarlierToday),
                StalePlaceholder, ForeignRecord}

MaxFileCards == 3

ForeignFiles ==
    {[state |-> "ok", last_updated |-> OldTime, cards |-> cards] :
        cards \in UNION {[1..n -> FileRecords] : n \in 0..MaxFileCards}}

InitRunOver(files) ==
    /\ disk \in files
    /\ now = StartTime
    /\ pc = "idle"
    /\ run = MaxRuns - 1
    /\ raised = "none"
    /\ env = [cloud |-> TRUE, data_dir |-> TRUE, catalog |-> TRUE]
    /\ api_keys = 1
    /\ existing_cards = [id \in Ids |-> None]
    /\ cards_data = [i \in Positions |-> None]
    /\ idx = 1
    /\ updated_cards = << >>
    /\ failed_cards = << >>
    /\ skipped_cards = << >>
    /\ links = 0
    /\ link_idx = 1
    /\ key_idx = 1
    /\ main_content = NoContent
    /\ call_log = << >>
    /\ extracted = NoReply
    /\ touched = {}
    /\ persisted = {}
    /\ start_disk = disk
    /\ start_time = now
    /\ prev = NoRun
    /\ log = << >>
    /\ start_log = << >>
    /\ in_flight = {}
    /\ scrape_delay = DEFAULT_SCRAPE_DELAY
    /\ delay = NoDelay
    /\ response = NoResponse
    /\ extract_links = FALSE
    /\ fetched = NotFetched
    /\ combined_content = << >>
    /\ deep_log = << >>
    /\ content = NoContent
    /\ InitApp

InitDataset == InitRunOver(ForeignFiles)

SpecDataset == InitDataset /\ [][Next]_vars

---------------------------------------------------------------------------
(* One run over a dataset file whose records carry any kind of last_updated: *)
(* none, an empty string, a string that is no date, a number, a time of      *)
(* today, a time of an earlier day.                                         *)

Stamps == {NoTimestamp, EmptyStamp, Unparseable, NotAString, EarlierToday, OldTime}

StampRecord(i, v) == [RealRecord(i, OldTime) EXCEPT !.last_updated = v]

StampFiles ==
    {[state |-> "ok", last_updated |-> OldTime,
      cards |-> [i \in Positions |-> StampRecord(i, v[i])]] :
        v \in [Positions -> Stamps]}

InitStamps == InitRunOver(StampFiles)

SpecStamps == InitStamps /\ [][Next]_vars

---------------------------------------------------------------------------
(* The delay between cards on its own: the first card of a first run has    *)
(* fallen back to the placeholder and its checkpoint is being written, for   *)
(* any configured delay and any pool.                                        *)

\* values of SCRAPE_DELAY in the environment, in seconds
ScrapeDelays == {0, 1, 30, 59, 60, 61, 90, 119, 120, 121, 300, 3600}

InitDelay ==
    /\ disk = PartialFile
    /\ now = StartTime
    /\ pc = "save_dump"
    /\ run = 1
    /\ raised = "none"
    /\ \E e \in Environments(MissingFile) : \E n \in KeyCounts(e) :
          /\ main_start(e, n) = "proceed"
          /\ env = e
          /\ api_keys = n
    /\ existing_cards = [id \in Ids |-> None]
    /\ cards_data = [i \in Positions |->
                        IF i = 1 THEN default_data(Sources[1]) ELSE None]
    /\ idx = 1
    /\ updated_cards = << >>
    /\ failed_cards = <<1>>
    /\ skipped_cards = << >>
    /\ links = 0
    /\ link_idx = 1
    /\ key_idx = 1
    /\ main_content = NoContent
    /\ call_log = << >>
    /\ extracted = NoReply
    /\ touched = {1}
    /\ persisted = {}
    /\ start_disk = MissingFile
    /\ start_time = now
    /\ prev = NoRun
    /\ log = << >>
    /\ start_log = << >>
    /\ in_flight = {}
    /\ scrape_delay \in ScrapeDelays
    /\ delay = NoDelay
    /\ response = NoResponse
    /\ extract_links = FALSE
    /\ fetched = NotFetched
    /\ combined_content = << >>
    /\ deep_log = << >>
    /\ content = NoContent
    /\ InitApp

NextDelay ==
    \/ SaveDump
    \/ Sleep
    \/ Tick

SpecDelay == InitDelay /\ [][NextDelay]_vars

---------------------------------------------------------------------------
(* config.get_api_keys on its own: any provider, any value of the            *)
(* provider's two settings, while the other providers have keys of their own.*)

\* nothing runs: main() has not been started and no page has been requested
InitIdleOn(d) ==
    /\ disk = d
    /\ now = StartTime
    /\ pc = "idle"
    /\ run = 0
    /\ raised = "none"
    /\ env = [cloud |-> TRUE, data_dir |-> TRUE, catalog |-> TRUE]
    /\ api_keys = 1
    /\ existing_cards = [id \in Ids |-> None]
    /\ cards_data = [i \in Positions |-> None]
    /\ idx = 1
    /\ updated_cards = << >>
    /\ failed_cards = << >>
    /\ skipped_cards = << >>
    /\ links = 0
    /\ link_idx = 1
    /\ key_idx = 1
    /\ main_content = NoContent
    /\ call_log = << >>
    /\ extracted = NoReply
    /\ touched = {}
    /\ persisted = {}
    /\ start_disk = disk
    /\ start_time = now
    /\ prev = NoRun
    /\ log = << >>
    /\ start_log = << >>
    /\ in_flight = {}
    /\ scrape_delay = DEFAULT_SCRAPE_DELAY
    /\ delay = NoDelay
    /\ response = NoResponse
    /\ extract_links = FALSE
    /\ fetched = NotFetched
    /\ combined_content = << >>
    /\ deep_log = << >>
    /\ content = NoContent

InitIdle == InitIdleOn(MissingFile)

\* the single-key setting: not set, a key, a blank, a key with a blank
SingleKeys == {<< >>, <<"a">>, <<" ">>, <<"a", " ">>}

OtherSettings == [API_KEYS |-> <<"b">>, API_KEY |-> <<"b">>]

KeySettings(provider) ==
    IF provider \notin CloudProviders THEN {[p \in CloudProviders |-> OtherSettings]}
    ELSE {[p \in CloudProviders |->
              IF p = provider THEN [API_KEYS |-> m, API_KEY |-> k] ELSE OtherSettings] :
            m \in Strings(MaxSettingLen), k \in SingleKeys}

InitKeys ==
    /\ InitIdle
    /\ llm_provider \in Providers
    /\ key_settings \in KeySettings(llm_provider)
    /\ keys = NotCalled
    /\ InitCards
    /\ InitChat

GetApiKeys ==
    /\ keys = NotCalled
    /\ keys' = get_api_keys(llm_provider, key_settings)
    /\ UNCHANGED <<mainVars, pageVars, llm_provider, key_settings, cardsVars, chatVars>>

NextKeys == GetApiKeys

SpecKeys == InitKeys /\ [][NextKeys]_vars

---------------------------------------------------------------------------
(* The card list of the running server: main.py has been imported, which    *)
(* imported credit_cards.py; the updater rewrites cards.json now and then,  *)
(* and the endpoints are called in any order.                               *)

\* a record of card i with the given multiplier for dining
CardWith(i, n) == [RealRecord(i, OldTime) EXCEPT !.categories["dining"] = JNum(n)]

\* cards.json as the server may find it
ServerDisks ==
    {MissingFile, PartialFile,
     output_data(<<CardWith(1, 3)>>, OldTime),
     output_data(<<CardWith(1, 3), CardWith(2, 5)>>, EarlierToday),
     output_data(<<CardWith(1, 5), CardWith(2, 3)>>, EarlierToday)}

TopLimits == {1, 3}

\* import main: credit_cards.py loads the list, and "from credit_cards import
\* credit_cards" binds main's name to the same list
InitServer ==
    /\ \E d \in ServerDisks : InitIdleOn(d)
    /\ InitConf
    /\ credit_cards = load_credit_cards(disk)
    /\ main_credit_cards = credit_cards
    /\ reloaded = FALSE
    /\ answer = NoAnswer
    /\ InitChat

\* scripts/update_cards.py has been run: cards.json is another file
UpdateDataset ==
    /\ \E d \in ServerDisks : d # disk /\ disk' = d
    /\ answer' = NoAnswer
    /\ UNCHANGED <<now, pc, run, raised, env, api_keys, existing_cards, cards_data,
                   idx, tallyVars, cardVars, touched, persisted, start_disk,
                   start_time, prev, log, start_log, in_flight, scrape_delay, delay>>
    /\ UNCHANGED <<pageVars, confVars, credit_cards, main_credit_cards, reloaded,
                   chatVars>>

\* POST /api/cards/reload: reload_cards() rebinds the global of credit_cards.py
ReloadCardData ==
    /\ credit_cards' = load_credit_cards(disk)
    /\ reloaded' = TRUE
    /\ answer' = NoAnswer
    /\ UNCHANGED <<mainVars, pageVars, confVars, main_credit_cards, chatVars>>

\* GET /api/cards: return credit_cards, the name of main.py
GetCards ==
    /\ answer' = [reader |-> "get_cards", cards |-> main_credit_cards,
                  count |-> Len(main_credit_cards)]
    /\ UNCHANGED <<mainVars, pageVars, confVars, credit_cards, main_credit_cards,
                   reloaded, chatVars>>

\* GET /api/cards/status: len(credit_cards), the name of main.py
GetCardsStatus ==
    /\ answer' = [reader |-> "get_cards_status", cards |-> << >>,
                  count |-> Len(main_credit_cards)]
    /\ UNCHANGED <<mainVars, pageVars, confVars, credit_cards, main_credit_cards,
                   reloaded, chatVars>>

\* build_context: for card in credit_cards, the name of main.py; one entry of
\* the context per card, in the order of the list
BuildContext ==
    /\ answer' = [reader |-> "build_context", cards |-> main_credit_cards,
                  count |-> Len(main_credit_cards)]
    /\ UNCHANGED <<mainVars, pageVars, confVars, credit_cards, main_credit_cards,
                   reloaded, chatVars>>

\* GET /api/cards/{category_id}: get_top_cards_for_category reads the global
\* of credit_cards.py
GetCardsForCategory ==
    /\ \E limit \in TopLimits :
          answer' = [reader |-> "get_top_cards_for_category",
                     cards |-> get_top_cards_for_category(credit_cards, "dining", limit),
                     count |-> limit]
    /\ UNCHANGED <<mainVars, pageVars, confVars, credit_cards, main_credit_cards,
                   reloaded, chatVars>>

NextServer ==
    \/ UpdateDataset
    \/ ReloadCardData
    \/ GetCards
    \/ GetCardsStatus
    \/ BuildContext
    \/ GetCardsForCategory

SpecServer == InitServer /\ [][NextServer]_vars

---------------------------------------------------------------------------
(* The chat log of the running server: sessions are started, chat requests  *)
(* log the user's message, await the model and log its reply, and the       *)
(* administrator clears the log, in any order.                              *)

\* a session may take another message
HasRoom(session_id) == Len(chat_file.sessions[session_id].messages) < MaxMessages

InitChatServer ==
    /\ InitIdle
    /\ InitConf
    /\ InitCards
    /\ chat_file \in {NoChatFile, InvalidChatFile}
    /\ chat_waiting = {}
    /\ last_request = NoRequest

\* POST /api/chat/new: a fresh id; sessions["sessions"][session_id] = {...}
NewSession ==
    \E session_id \in SessionIds :
        /\ ~chat_file.sessions[session_id].present
        /\ IF setitem_raises(load_chat_sessions(chat_file))
           THEN /\ last_request' = Request("new_session", session_id, "", "TypeError")
                /\ UNCHANGED chat_file
           ELSE /\ chat_file' = [load_chat_sessions(chat_file) EXCEPT
                                    !.sessions[session_id] = NewSessionEntry]
                /\ last_request' = Request("new_session", session_id, "", "ok")
        /\ UNCHANGED <<mainVars, pageVars, confVars, cardsVars, chat_waiting>>

\* POST /api/chat up to the await: log_chat_message(session_id, "user", ...)
ChatUser ==
    \E session_id \in SessionIds :
        /\ session_id \notin chat_waiting
        /\ HasRoom(session_id)
        /\ IF setitem_raises(load_chat_sessions(chat_file))
           THEN /\ last_request' = Request("log_chat_message", session_id, "user",
                                           "TypeError")
                /\ UNCHANGED <<chat_file, chat_waiting>>
           ELSE /\ chat_file' = log_chat_message(chat_file, session_id, "user")
                /\ chat_waiting' = chat_waiting \cup {session_id}
                /\ last_request' = Request("log_chat_message", session_id, "user", "ok")
        /\ UNCHANGED <<mainVars, pageVars, confVars, cardsVars>>

\* POST /api/chat after the await: log_chat_message(session_id, "assistant", ...)
ChatAssistant ==
    \E session_id \in chat_waiting :
        /\ HasRoom(session_id)
        /\ chat_waiting' = chat_waiting \ {session_id}
        /\ IF setitem_raises(load_chat_sessions(chat_file))
           THEN /\ last_request' = Request("log_chat_message", session_id, "assistant",
                                           "TypeError")
                /\ UNCHANGED chat_file
           ELSE /\ chat_file' = log_chat_message(chat_file, session_id, "assistant")
                /\ last_request' = Request("log_chat_message", session_id, "assistant",
                                           "ok")
        /\ UNCHANGED <<mainVars, pageVars, confVars, cardsVars>>

\* POST /api/admin/clear/chat: 401 on a wrong password; 500 when the file
\* exists and json.load fails on it; else the file becomes {"sessions": []},
\* whether or not it existed
ClearChatSessions ==
    \E verified \in BOOLEAN :
        /\ IF ~verified
           THEN /\ last_request' = Request("clear_chat_sessions", "", "", "401")
                /\ UNCHANGED chat_file
           ELSE IF chat_file.shape = "invalid"
           THEN /\ last_request' = Request("clear_chat_sessions", "", "", "500")
                /\ UNCHANGED chat_file
           ELSE /\ chat_file' = EmptyList
                /\ last_request' = Request("clear_chat_sessions", "", "", "ok")
        /\ UNCHANGED <<mainVars, pageVars, confVars, cardsVars, chat_waiting>>

NextChat ==
    \/ NewSession
    \/ ChatUser
    \/ ChatAssistant
    \/ ClearChatSessions

SpecChat == InitChatServer /\ [][NextChat]_vars

---------------------------------------------------------------------------
(* What the properties read *)

\* The record of a card id in a dataset file (None when the file holds none)
DiskRecord(d, id) == IF d.state = "ok" THEN RecordOf(d.cards, id) ELSE None

\* The record the file held for catalog card i when this run started
PriorRecord(i) == DiskRecord(start_disk, Sources[i].id)

HasRealData(card) == card # None /\ card.notes # DEFAULT_NOTES

Attempted(i) == Outcome(i) \in {"MERGED", "FAILED_FALLBACK"}

ValidMultiplier(v) == v.t = "num" /\ v.n >= 1

\* Every call of the current extraction failed with a transient error
PoolExhausted ==
    /\ call_log # << >>
    /\ Len(call_log) = keys_to_try
    /\ \A j \in 1..Len(call_log) : call_log[j].outcome \in Transient

\* The previous run ran to completion and no midnight has passed since it started
SameDayRerun == prev.done /\ DateOf(prev.start_time) = DateOf(now)

---------------------------------------------------------------------------
\* C1: a card that fell back while the file held a non-placeholder record for it
\* keeps exactly that record, in cards_data and in every completed write of the
\* run, the final one included.
C1_FallbackPreservation ==
    \A i \in Positions :
        (Outcome(i) = "FAILED_FALLBACK" /\ HasRealData(PriorRecord(i))) =>
            /\ cards_data[i] = PriorRecord(i)
            /\ (pc = "done" => i \in persisted /\ disk.state = "ok")
            /\ (i \in persisted /\ disk.state = "ok" =>
                    DiskRecord(disk, Sources[i].id) = PriorRecord(i))

C1_Witness ==
    /\ pc = "done"
    /\ \E i \in Positions :
          Outcome(i) = "FAILED_FALLBACK" /\ HasRealData(PriorRecord(i))

\* C2: whenever the process is killed, the file is a complete dataset that holds
\* a record for every card written so far and the prior record of every other.
C2_CrashSafety ==
    pc = "killed" =>
        /\ disk.state # "partial"
        /\ \A i \in Positions :
              IF i \in persisted
              THEN DiskRecord(disk, Sources[i].id) # None
              ELSE DiskRecord(disk, Sources[i].id) = PriorRecord(i)

\* C3: when the request for a card's page goes out, every card attempted before
\* it is in a completed write; and at no moment of a run is the result of more
\* than one attempted card missing from the file.
C3_CheckpointAfterEveryCard ==
    /\ pc \in {"fetch_main", "fetch_sub", "extract"} =>
          \A i \in 1..(idx - 1) : Attempted(i) =>
              i \in persisted /\ DiskRecord(disk, Sources[i].id) = cards_data[i]
    /\ pc \in Running =>
          Cardinality({i \in Positions :
              Attempted(i) /\ DiskRecord(disk, Sources[i].id) # cards_data[i]}) <= 1

\* C4 as claimed: after a second completed run on the same day every card was
\* skipped and every last_updated is what the first run left.
C4_Idempotence ==
    (SameDayRerun /\ pc = "done") =>
        \A i \in Positions :
            /\ Outcome(i) = "SKIPPED"
            /\ cards_data[i].last_updated = prev.cards[i].last_updated

\* C4 as amended: after a second completed run on the same day every card that
\* the first run merged or skipped was skipped, and its last_updated, in
\* cards_data and in the file, is what the first run left.
C4_IdempotenceOfRefreshed ==
    (SameDayRerun /\ pc = "done") =>
        \A i \in Positions :
            prev.outcome[i] \in {"MERGED", "SKIPPED"} =>
                /\ Outcome(i) = "SKIPPED"
                /\ cards_data[i].last_updated = prev.cards[i].last_updated
                /\ DiskRecord(disk, Sources[i].id).last_updated
                       = prev.cards[i].last_updated

C4_Witness ==
    /\ SameDayRerun
    /\ pc = "done"
    /\ \E i \in Positions : prev.outcome[i] = "MERGED"
    /\ \E i \in Positions : prev.outcome[i] = "SKIPPED"

\* C5: a step of main() at a card whose existing record is dated today appends
\* the card to skipped_cards and nothing else: no request goes out, no call is
\* made, cards_data, the file and the other two lists stay as they are; and a
\* skipped card is never one a request went out for.
C5_Step ==
    /\ \A i \in Positions : Outcome(i) = "SKIPPED" =>
          i \notin touched /\ cards_data[i] = existing_cards[Sources[i].id]
    /\ (/\ pc = "loop"
        /\ idx <= NumCards
        /\ existing_cards[Sources[idx].id] # None
        /\ existing_cards[Sources[idx].id].last_updated # NoTimestamp
        /\ DateOf(existing_cards[Sources[idx].id].last_updated) = DateOf(now)
        /\ pc' # "killed")
       => /\ skipped_cards' = Append(skipped_cards, idx)
          /\ pc' = "loop"
          /\ idx' = idx + 1
          /\ idx \notin touched'
          /\ UNCHANGED <<touched, call_log, cards_data, disk, updated_cards,
                         failed_cards>>

C5_SkipTransition == [][C5_Step]_vars

C5_Witness ==
    /\ Len(skipped_cards) > 0
    /\ \E i \in Positions : Attempted(i)

\* C6: when the calls with keys 1..i-1 were rate limited and the call with key i
\* returned a payload that parses, extract_with_llm has returned that payload
\* after exactly i calls, made with keys 1..i in this order.
C6_CredentialRotation ==
    \A i \in 1..Len(call_log) :
        (/\ \A j \in 1..(i - 1) : call_log[j].outcome = "rate_limited"
         /\ call_log[i].outcome = "ok")
        => /\ Len(call_log) = i
           /\ pc # "extract"
           /\ extracted = call_log[i].reply
           /\ \A j \in 1..i : call_log[j].key = j

C6_Witness ==
    /\ Len(call_log) >= 2
    /\ \A j \in 1..(Len(call_log) - 1) : call_log[j].outcome = "rate_limited"
    /\ call_log[Len(call_log)].outcome = "ok"

\* C7: a call whose reply fails to parse is the last call of the extraction,
\* and extract_with_llm has returned None.
C7_MalformedAbortsRotation ==
    \A i \in 1..Len(call_log) :
        call_log[i].outcome = "malformed" =>
            /\ Len(call_log) = i
            /\ pc # "extract"
            /\ extracted = NoReply

C7_Witness ==
    /\ api_keys >= 2
    /\ Len(call_log) = 1
    /\ call_log[1].outcome = "malformed"

\* C8: when every key of the pool failed with a transient error,
\* extract_with_llm has returned None, the card is counted as failed, no
\* exception has left main() and main() stands at the save of this card.
C8_PoolExhaustionFallsBack ==
    PoolExhausted =>
        /\ extracted = NoReply
        /\ Outcome(idx) = "FAILED_FALLBACK"
        /\ raised = "none"
        /\ pc = "save_open"

C8_Witness ==
    /\ PoolExhausted
    /\ api_keys >= 2
    /\ idx < NumCards

\* C9: no failure of one card terminates the run: the only exception that ever
\* leaves main() is a failed write of the dataset file.
C9_ErrorContainment ==
    pc = "aborted" => raised = "OSError"

\* C10: every record in cards_data and in the file has, for every tracked
\* category, a numeric multiplier >= 1.
C10_CategoriesInvariant ==
    /\ \A i \in Positions : cards_data[i] # None =>
          \A cat \in CATEGORIES : ValidMultiplier(cards_data[i].categories[cat])
    /\ \A k \in DOMAIN disk.cards :
          \A cat \in CATEGORIES : ValidMultiplier(disk.cards[k].categories[cat])

---------------------------------------------------------------------------
\* C11: a card that fell back carries a last_updated dated before the day on
\* which the run attempted it (its original timestamp or the placeholder's), and
\* in the run after a run that ran to completion such a card is dated before
\* that run's first day, is never skipped, and is attempted once the loop has
\* passed it.
C11_FailedCardsRetried ==
    \A i \in Positions :
        /\ Outcome(i) = "FAILED_FALLBACK" =>
               /\ cards_data[i] # None
               /\ cards_data[i].last_updated \in {PLACEHOLDER_TIME, PriorRecord(i).last_updated}
               /\ DateOf(cards_data[i].last_updated) < DateOf(now)
        /\ (prev.done /\ prev.outcome[i] = "FAILED_FALLBACK") =>
               /\ DateOf(prev.cards[i].last_updated) < DateOf(start_time)
               /\ Outcome(i) # "SKIPPED"
               /\ (pc \in Running \cup {"done", "aborted"} /\ idx > i => i \in touched)
               /\ (pc = "done" => Attempted(i))

C11_Witness ==
    /\ pc = "done"
    /\ SameDayRerun
    /\ \E i \in Positions :
          /\ prev.outcome[i] = "FAILED_FALLBACK"
          /\ prev.cards[i].last_updated = PLACEHOLDER_TIME
          /\ Attempted(i)
    /\ \E i \in Positions :
          /\ prev.outcome[i] = "FAILED_FALLBACK"
          /\ prev.cards[i].last_updated = OldTime
          /\ Attempted(i)

---------------------------------------------------------------------------
\* C12: a card that fell back while the file held no record for it gets the
\* placeholder: the source's id, name, issuer, color and url, every category at
\* 1, the sentinel note and the 2020-01-01 timestamp; it is counted as failed
\* and not as updated, and a completed write holds that placeholder.
C12_PlaceholderSynthesis ==
    \A i \in Positions :
        (Outcome(i) = "FAILED_FALLBACK" /\ PriorRecord(i) = None) =>
            /\ cards_data[i].id = Sources[i].id
            /\ cards_data[i].name = Sources[i].name
            /\ cards_data[i].issuer = Sources[i].issuer
            /\ cards_data[i].color = Sources[i].color
            /\ cards_data[i].source_url = Sources[i].url
            /\ \A cat \in CATEGORIES : cards_data[i].categories[cat] = JNum(1)
            /\ cards_data[i].notes = DEFAULT_NOTES
            /\ cards_data[i].last_updated = PLACEHOLDER_TIME
            /\ InSeq(failed_cards, i) /\ ~InSeq(updated_cards, i)
            /\ (i \in persisted /\ disk.state = "ok" =>
                    DiskRecord(disk, Sources[i].id) = cards_data[i])

\* extraction failed after the pool was tried, for a card without a record,
\* after an earlier card without a record had failed and was written
C12_Witness ==
    /\ pc = "save_open"
    /\ idx > 1
    /\ Outcome(idx) = "FAILED_FALLBACK" /\ PriorRecord(idx) = None
    /\ Len(call_log) >= 1
    /\ Outcome(1) = "FAILED_FALLBACK" /\ PriorRecord(1) = None
    /\ 1 \in persisted /\ disk.state = "ok"

---------------------------------------------------------------------------
\* The indexes of a dataset file's cards that carry the given id
IndexesOf(d, id) == {k \in DOMAIN d.cards : d.cards[k].id = id}

\* C13: a merged card's record has the source's id, name, issuer, color and
\* url and a last_updated within this run; when update_card returns it, the
\* record has the reply's value for every category the reply contains, the
\* reply's notes, and the current time; it stands in the card's own slot of
\* cards_data, and a completed write holds it once, at that position, in place
\* of the record the file held before.
C13_SuccessfulMerge ==
    \A i \in Positions :
        Outcome(i) = "MERGED" =>
            /\ cards_data[i].id = Sources[i].id
            /\ cards_data[i].name = Sources[i].name
            /\ cards_data[i].issuer = Sources[i].issuer
            /\ cards_data[i].color = Sources[i].color
            /\ cards_data[i].source_url = Sources[i].url
            /\ cards_data[i].last_updated >= start_time
            /\ cards_data[i].last_updated <= now
            /\ (pc = "save_open" /\ idx = i =>
                    /\ cards_data[i].last_updated = now
                    /\ cards_data[i].notes = extracted.notes
                    /\ \A cat \in CATEGORIES :
                          (extracted.categories_kind = "object"
                             /\ extracted.categories[cat] # JMissing) =>
                              cards_data[i].categories[cat] = extracted.categories[cat])
            /\ (i \in persisted /\ disk.state = "ok" =>
                    /\ IndexesOf(disk, Sources[i].id) = {i}
                    /\ disk.cards[i] = cards_data[i]
                    /\ disk.cards[i] # PriorRecord(i))

\* the second card had a record, the reply gave groceries 5, and the write of
\* the merged record has completed
C13_Witness ==
    /\ pc = "sleep"
    /\ idx = 2
    /\ Outcome(2) = "MERGED"
    /\ PriorRecord(2) # None
    /\ IndexesOf(start_disk, Sources[2].id) = {2}
    /\ cards_data[2].categories["groceries"] = JNum(5)
    /\ disk.cards[2] = cards_data[2]

---------------------------------------------------------------------------
\* This run found no key for a cloud provider, no catalog, or no DATA_DIR
ConfigurationError ==
    /\ run >= 1
    /\ \/ env.cloud /\ api_keys = 0
       \/ ~env.catalog
       \/ ~env.data_dir

\* C14: in a run that found a configuration error no page is requested, no
\* completion call is made, no card is processed or counted, and the dataset
\* file stays as it was when the run started; a local provider without keys is
\* no such error.
C14_ConfigurationErrorsFatal ==
    /\ ConfigurationError =>
          /\ pc = "refused"
          /\ touched = {}
          /\ call_log = << >>
          /\ \A i \in Positions : Outcome(i) = "PENDING"
          /\ persisted = {}
          /\ disk = start_disk
    /\ pc = "refused" => ConfigurationError

\* a second run is refused for a missing catalog after the first run wrote
\* the file, and time has passed since
C14_Witness ==
    /\ pc = "refused"
    /\ run = 2
    /\ ~env.catalog /\ env.data_dir /\ api_keys >= 1
    /\ raised = "FileNotFoundError"
    /\ disk.state = "ok" /\ disk.last_updated = StartTime
    /\ now > start_time

---------------------------------------------------------------------------
\* C15: a write that does not complete raises OSError out of main(): main()
\* goes on to the delay before the next card, or to completion, only by a write
\* that completed with the current cards_data, and once OSError has left main()
\* nothing more is fetched, counted or written in that run.
C15_Step ==
    /\ (pc \in {"save_open", "final_open"} /\ pc' \notin {pc, "killed"}) =>
           \/ pc' = (IF pc = "save_open" THEN "save_dump" ELSE "final_dump")
           \/ pc' = "aborted" /\ raised' = "OSError"
    /\ (pc \in {"save_dump", "final_dump"} /\ pc' \notin {pc, "killed"}) =>
           \/ /\ pc' = (IF pc = "save_dump" THEN "sleep" ELSE "write_log")
              /\ disk' = output_data(cards_data, now)
           \/ pc' = "aborted" /\ raised' = "OSError"
    /\ (pc' = "sleep" /\ pc # "sleep") => pc = "save_dump"
    /\ (pc' = "write_log" /\ pc # "write_log") => pc = "final_dump"
    /\ (pc' = "done" /\ pc # "done") => pc = "write_log"
    /\ (raised' = "OSError" /\ raised # "OSError") => pc' = "aborted"
    /\ (raised = "OSError" /\ run' = run) =>
           /\ pc = "aborted"
           /\ UNCHANGED <<pc, disk, cards_data, idx, tallyVars, touched, persisted,
                          call_log>>

C15_PersistenceFailuresPropagate == [][C15_Step]_vars

\* the write after the first card failed part-way; the second card was never
\* reached
C15_Witness ==
    /\ pc = "aborted"
    /\ raised = "OSError"
    /\ disk.state = "partial"
    /\ idx = 1
    /\ Attempted(1)
    /\ touched = {1}
    /\ now > start_time

---------------------------------------------------------------------------
\* Anchor k of a page is a qualifying link: its href is not empty, a fragment
\* or a script, it resolves to the host of the base URL, no earlier such anchor
\* resolves to the same URL, and its text or its URL contains a keyword
Internal(a) == ~skipped_href(a.href) /\ netloc(urljoin(a.href)) = netloc(BASE_URL)

Qualifies(a_tags, k) ==
    /\ Internal(a_tags[k])
    /\ \A j \in 1..(k - 1) :
          Internal(a_tags[j]) => urljoin(a_tags[j].href) # urljoin(a_tags[k].href)
    /\ \/ contains_keyword(lower(a_tags[k].text))
       \/ contains_keyword(lower(urljoin(a_tags[k].href)))

Qualifying(a_tags) == {k \in DOMAIN a_tags : Qualifies(a_tags, k)}

\* the j-th smallest member of a set of positions
Nth(S, j) == CHOOSE k \in S : Cardinality({m \in S : m <= k}) = j

\* C16: for a page with q qualifying links the returned list has min(q, 3)
\* entries, and its j-th entry is the j-th qualifying link of the document.
C16_LinkFilterCap ==
    (fetched # NotFetched /\ response.kind = "response" /\ response.status = 200
        /\ extract_links) =>
        LET Q == Qualifying(response.a_tags)
        IN  /\ Len(fetched.links) = Min(Cardinality(Q), 3)
            /\ \A j \in 1..Len(fetched.links) :
                  fetched.links[j].url = urljoin(response.a_tags[Nth(Q, j)].href)

\* four qualifying links, of which the first three were returned
C16_Witness ==
    /\ fetched # NotFetched
    /\ extract_links
    /\ Cardinality(Qualifying(response.a_tags)) = 4
    /\ Len(fetched.links) = 3
    /\ fetched.links[3].url = urljoin(response.a_tags[3].href)

---------------------------------------------------------------------------
\* C18: when client.get fails or the status is not a success, fetch_page_content
\* returns "" and [], whatever extract_links is, and for no answer of the
\* server does an exception leave it.
C18_FetcherSoftFailure ==
    fetched # NotFetched =>
        /\ fetched.raised = "none"
        /\ (response.kind # "response" \/ response.status \notin 200..299) =>
               fetched.text_len = 0 /\ fetched.links = << >>

\* a timeout, with link extraction requested
C18_Witness ==
    /\ fetched # NotFetched
    /\ response.kind = "ReadTimeout"
    /\ extract_links
    /\ fetched.text_len = 0

---------------------------------------------------------------------------
\* C17: the content handed to extract_with_llm is never longer than 6000
\* characters, and it is exactly 6000 long whenever the main text, the header
\* and the labelled sub-page pieces joined by newlines come to more than 6000.
C17_ContentCap ==
    content # NoContent =>
        /\ content <= 6000
        /\ content >= fetched.text_len
        /\ (combined_content # << >> /\
              fetched.text_len + SUBPAGES_HEADER_LEN + SumOf(combined_content)
                 + Len(combined_content) - 1 > 6000) => content = 6000
        /\ (combined_content # << >> /\
              fetched.text_len + SUBPAGES_HEADER_LEN + SumOf(combined_content)
                 + Len(combined_content) - 1 <= 6000) =>
               content = fetched.text_len + SUBPAGES_HEADER_LEN
                            + SumOf(combined_content) + Len(combined_content) - 1

\* a main page of 4000 characters and three sub-pages, one of which failed,
\* come to more than the cap
C17_Witness ==
    /\ content = 6000
    /\ fetched.text_len = PAGE_TEXT_SIZE
    /\ Len(fetched.links) = 3
    /\ Len(combined_content) = 2
    /\ fetched.text_len + SUBPAGES_HEADER_LEN + SumOf(combined_content) + 1 > 6000

---------------------------------------------------------------------------
\* C19: whatever the dataset file is, load_existing_cards returns a dataset,
\* the empty one when the file is missing or no valid JSON, and main() goes on
\* to the loop; no exception leaves it.
C19_LoadNeverRaises ==
    pc # "idle" =>
        /\ raised = "none"
        /\ pc = "loop"
        /\ disk.state \in {"missing", "partial"} =>
               \A id \in Ids : existing_cards[id] = None

---------------------------------------------------------------------------
\* The catalog position of a card id
PositionOf(id) == CHOOSE i \in Positions : Sources[i].id = id

Increasing(seq) == \A a, b \in DOMAIN seq : a < b => seq[a] < seq[b]

\* C20: the loop deals with the cards in catalog order (each of main()'s lists
\* is in catalog order, and when a card is counted or requested every earlier
\* card has been counted); the write for a card has completed before a later
\* card is reached; and in every complete dataset file the records stand in
\* the order of their ids in the catalog.
C20_Ordering ==
    /\ Increasing(updated_cards) /\ Increasing(failed_cards) /\ Increasing(skipped_cards)
    /\ \A i \in Positions :
          /\ Outcome(i) # "PENDING" =>
                 i <= idx /\ \A j \in 1..(i - 1) : Outcome(j) # "PENDING"
          /\ (i \in touched /\ pc \in Running) =>
                 i <= idx /\ \A j \in 1..(i - 1) : Outcome(j) # "PENDING"
          /\ (Attempted(i) /\ i < idx) => i \in persisted
          /\ i \in persisted => \A j \in 1..(i - 1) : j \in touched => j \in persisted
    /\ disk.state = "ok" =>
          \A a, b \in DOMAIN disk.cards :
              a < b => PositionOf(disk.cards[a].id) < PositionOf(disk.cards[b].id)

\* a run on an empty dataset wrote both cards, the first failed and the second
\* merged
C20_Witness ==
    /\ pc = "done"
    /\ start_disk.state = "missing"
    /\ failed_cards = <<1>>
    /\ updated_cards = <<2>>
    /\ Len(disk.cards) = 2
    /\ disk.cards[2].id = Sources[2].id

---------------------------------------------------------------------------
\* main() has ended, by returning or by an exception other than a failed write
EndedWithoutWriteFailure == pc \in {"done", "aborted"} /\ raised # "OSError"

\* C21: when a run has ended, the run log is the log the run found plus exactly
\* one entry if a card ended MERGED or FAILED_FALLBACK in it, that entry lists
\* each such card in exactly one of its two lists and no other card, and the
\* log is the log the run found if every card was skipped; at every moment the
\* log the run found is a prefix of the log.
C21_RunLog ==
    /\ EndedWithoutWriteFailure =>
          IF \E i \in Positions : Outcome(i) \in {"MERGED", "FAILED_FALLBACK"}
          THEN /\ Len(log) = Len(start_log) + 1
               /\ \A i \in Positions :
                     LET entry == log[Len(log)]
                     IN  /\ InSeq(entry.updated, i) <=> Outcome(i) = "MERGED"
                         /\ InSeq(entry.failed, i) <=> Outcome(i) = "FAILED_FALLBACK"
          ELSE log = start_log
    /\ Len(start_log) <= Len(log)
    /\ \A k \in DOMAIN start_log : log[k] = start_log[k]

---------------------------------------------------------------------------
\* What holds of a step in which operation o is sent
StartsInOrder(o) ==
    /\ o.card = idx
    /\ o.op = "main" =>
          /\ in_flight = {}
          /\ \A j \in touched : j < idx /\ j \in persisted /\ disk.state = "ok"
    /\ o.op = "sub" =>
          in_flight = {IF o.n = 1 THEN Operation("main", idx, 0)
                       ELSE Operation("sub", idx, o.n - 1)}
    /\ o.op = "llm" =>
          \/ o.n = 1 /\ in_flight = {Operation("main", idx, 0)} /\ links' = 0
          \/ o.n = 1 /\ in_flight = {Operation("sub", idx, links)}
          \/ o.n > 1 /\ in_flight = {Operation("llm", idx, o.n - 1)}

\* C22: at most one network operation is outstanding after every step, and an
\* operation is sent only in the step in which its predecessor returns: the
\* first sub-link fetch when the main page returns, each later one when the
\* sub-link fetch before it returns, the first completion call when the last
\* sub-link fetch returns (or the main page, if it has no relevant link), each
\* later call when the call before it returns, and the main-page fetch of a
\* card when nothing is outstanding and the file holds a completed write with
\* every card attempted before it in this run.
C22_Step ==
    /\ Cardinality(in_flight') <= 1
    /\ \A o \in in_flight' \ in_flight : StartsInOrder(o)

C22_StrictSequentiality == [][C22_Step]_vars

\* the fetch of the second card's second sub-link is outstanding, after the
\* first card was attempted and saved
C22_Witness ==
    /\ in_flight = {Operation("sub", 2, 2)}
    /\ 1 \in touched /\ 1 \in persisted
    /\ Outcome(1) = "FAILED_FALLBACK"

---------------------------------------------------------------------------
\* no two records of the list share an id, and every id is a catalog id
UniqueCatalogIds(cards) ==
    /\ \A j, k \in DOMAIN cards : cards[j].id = cards[k].id => j = k
    /\ \A k \in DOMAIN cards : cards[k].id \in Ids

\* C23: every dataset the updater writes holds at most one record per id and
\* only ids of catalog cards, whatever the file it started from held.
C23_Step == (disk' # disk /\ disk'.state = "ok") => UniqueCatalogIds(disk'.cards)

C23_DatasetIdsUnique == [][C23_Step]_vars

\* the run found a file with two records of card 1 and a record of a card the
\* catalog does not hold, and has written both catalog cards
C23_Witness ==
    /\ pc = "done"
    /\ Len(start_disk.cards) = 3
    /\ start_disk.cards[1].id = start_disk.cards[3].id
    /\ start_disk.cards[2] = ForeignRecord
    /\ Len(disk.cards) = 2
    /\ Outcome(1) = "FAILED_FALLBACK" /\ Outcome(2) = "MERGED"

---------------------------------------------------------------------------
\* C24: whenever the call with the key at position j has failed with 429, 503,
\* 404, another HTTP status, a timeout or another exception, and j is not the
\* last position of the pool, the call with the key at position j + 1 has
\* been made or is the operation now outstanding.
C24_TransientAdvancesRotation ==
    \A j \in DOMAIN call_log :
        (call_log[j].outcome \in Transient /\ j < keys_to_try) =>
            /\ call_log[j].key = j
            /\ IF Len(call_log) > j
               THEN call_log[j + 1].key = j + 1
               ELSE /\ pc = "extract"
                    /\ key_idx = j + 1
                    /\ in_flight = {Operation("llm", idx, j + 1)}

\* the first key met 404 and the call with the second key has returned
C24_Witness ==
    /\ api_keys = 2
    /\ Len(call_log) = 2
    /\ call_log[1].outcome = "not_found"
    /\ call_log[2].key = 2
    /\ call_log[2].outcome = "ok"

---------------------------------------------------------------------------
\* C25: a card that ended FAILED_FALLBACK and whose existing record carried
\* the placeholder note holds the placeholder synthesized from the catalog
\* entry: its id, name, issuer, color and url, every category at 1 and the
\* old timestamp.
C25_PlaceholderResynthesized ==
    \A i \in Positions :
        (Outcome(i) = "FAILED_FALLBACK" /\ PriorRecord(i) # None
            /\ PriorRecord(i).notes = DEFAULT_NOTES) =>
                cards_data[i] = default_data(Sources[i])

---------------------------------------------------------------------------
\* the reply that extract_with_llm returned for the current card
ReturnedReply == call_log[Len(call_log)].reply

\* every field the reply does not hold has its default in the record
MissingFieldsDefaulted(ext, card) ==
    /\ \A cat \in CATEGORIES :
          (ext.categories_kind = "absent" \/ ext.categories[cat] = JMissing) =>
              card.categories[cat] = JNum(1)
    /\ "point_value" \notin ext.keys =>
          card.point_value = [base_value |-> 100, best_value |-> 100,
                              best_redemption |-> "Statement credit"]
    /\ "special_offers" \notin ext.keys => card.special_offers = << >>
    /\ "credits" \notin ext.keys => card.credits = << >>
    /\ "annual_fee" \notin ext.keys => card.annual_fee = 0
    /\ "reward_type" \notin ext.keys => card.reward_type = "cashback"

\* C26: when update_card has returned for a card whose completion reply
\* parsed to a JSON object, the empty object included, the card is MERGED and
\* every field the reply does not hold has its default in the card's record.
C26_DefaultsForMissingFields ==
    (pc = "save_open" /\ call_log # << >>
        /\ call_log[Len(call_log)].outcome = "ok"
        /\ ReturnedReply.kind \in {"object", "empty_object"}) =>
            /\ Outcome(idx) = "MERGED"
            /\ MissingFieldsDefaulted(ReturnedReply, cards_data[idx])

---------------------------------------------------------------------------
\* C29: special_offers and credits of every record, in memory and in the
\* file, hold at most 5 entries, and the record merged from a reply holds the
\* first 5 entries of a reply list that is longer, in the reply's order.
C29_ListCaps ==
    /\ \A i \in Positions :
          /\ Len(cards_data[i].special_offers) <= 5
          /\ Len(cards_data[i].credits) <= 5
    /\ \A k \in DOMAIN disk.cards :
          /\ Len(disk.cards[k].special_offers) <= 5
          /\ Len(disk.cards[k].credits) <= 5
    /\ (pc = "save_open" /\ Outcome(idx) = "MERGED") =>
          /\ ("special_offers" \in ReturnedReply.keys
                 /\ Len(ReturnedReply.special_offers) > 5) =>
                cards_data[idx].special_offers = SubSeq(ReturnedReply.special_offers, 1, 5)
          /\ ("credits" \in ReturnedReply.keys /\ Len(ReturnedReply.credits) > 5) =>
                cards_data[idx].credits = SubSeq(ReturnedReply.credits, 1, 5)

\* a reply with six special offers was merged and written to the file
C29_Witness ==
    /\ pc = "sleep"
    /\ Outcome(1) = "MERGED"
    /\ disk.state = "ok"
    /\ disk.cards[1].id = Sources[1].id
    /\ disk.cards[1].special_offers = <<1, 2, 3, 4, 5>>
    /\ disk.cards[1].categories["groceries"] = JNum(5)

---------------------------------------------------------------------------
\* the pieces of the fetches that returned text, in the order of the fetches
Contributions ==
    LET returned == SelectSeq(deep_log, LAMBDA e : e.text_len > 0)
    IN  [k \in 1..Len(returned) |->
            piece_len(fetched.links[returned[k].link], returned[k].text_len)]

\* C27: the sub-links are fetched one after the other in link order, whether
\* or not an earlier fetch returned text; the pieces appended are those of the
\* fetches that returned text, in link order; and the content is put together
\* only after the last link was fetched, from the main text and those pieces.
C27_SubLinkFailureIsolation ==
    /\ link_idx = Len(deep_log) + 1
    /\ \A j \in DOMAIN deep_log : deep_log[j].link = j
    /\ combined_content = Contributions
    /\ content # NoContent =>
          /\ Len(deep_log) = Len(fetched.links)
          /\ content >= fetched.text_len
          /\ (combined_content # << >> /\ fetched.text_len < 6000 - 44) =>
                content > fetched.text_len

\* the first of three sub-links returned nothing, the other two were fetched
\* all the same and their pieces are part of the content
C27_Witness ==
    /\ content # NoContent
    /\ Len(fetched.links) = 3
    /\ deep_log[1].text_len = 0
    /\ deep_log[2].text_len > 0
    /\ deep_log[3].text_len > 0
    /\ combined_content = <<piece_len(fetched.links[2], deep_log[2].text_len),
                            piece_len(fetched.links[3], deep_log[3].text_len)>>
    /\ content > fetched.text_len

---------------------------------------------------------------------------
\* C28: while main() sleeps after an attempted card, the delay it computed is
\* the smaller of the configured delay and 60 seconds when more than one key
\* is configured, and the configured delay when no key or one key is.
C28_InterCardDelay ==
    pc = "sleep" =>
        /\ api_keys > 1 =>
              /\ delay = (IF scrape_delay < 60 THEN scrape_delay ELSE 60)
              /\ delay <= 60
        /\ api_keys <= 1 => delay = scrape_delay

\* two keys and a configured delay of 30 seconds: the wait is 30 seconds
C28_Witness ==
    /\ pc = "sleep"
    /\ api_keys = 2
    /\ scrape_delay = 30
    /\ delay = 30
    /\ Outcome(1) = "FAILED_FALLBACK"

---------------------------------------------------------------------------
\* C30: when a run that entered the loop has ended, every catalog card is in
\* exactly one of updated_cards, failed_cards and skipped_cards, so that the
\* three lengths add up to the number of catalog cards; and at every moment
\* no card is in two of the lists or twice in one.
C30_OutcomePartition ==
    /\ EndedWithoutWriteFailure =>
          /\ \A i \in Positions : Outcome(i) \in {"MERGED", "FAILED_FALLBACK", "SKIPPED"}
          /\ Len(updated_cards) + Len(failed_cards) + Len(skipped_cards) = NumCards
    /\ \A i \in Positions :
          Cardinality({k \in DOMAIN updated_cards : updated_cards[k] = i})
            + Cardinality({k \in DOMAIN failed_cards : failed_cards[k] = i})
            + Cardinality({k \in DOMAIN skipped_cards : skipped_cards[k] = i}) <= 1

---------------------------------------------------------------------------
\* C31: every link that extract_relevant_links returns is the resolved URL of
\* an anchor of the page whose href is not empty, not a fragment and not a
\* script, whose resolved URL is on the host of the base URL, and whose text
\* or resolved URL contains a keyword; and no two returned links have the same
\* URL.
C31_LinkFilterAdmissibility ==
    fetched # NotFetched =>
        /\ \A j \in DOMAIN fetched.links :
              \E k \in DOMAIN response.a_tags :
                 LET a == response.a_tags[k]
                 IN  /\ fetched.links[j].url = urljoin(a.href)
                     /\ fetched.links[j].text = Cut(a.text)
                     /\ ~skipped_href(a.href)
                     /\ netloc(fetched.links[j].url) = netloc(BASE_URL)
                     /\ \/ contains_keyword(lower(a.text))
                        \/ contains_keyword(lower(fetched.links[j].url))
        /\ \A i, j \in DOMAIN fetched.links :
              i # j => fetched.links[i].url # fetched.links[j].url

\* a page with a fragment anchor, an external anchor and two anchors for the
\* same URL, all with a keyword: one link came back
C31_Witness ==
    /\ fetched # NotFetched
    /\ extract_links
    /\ Len(response.a_tags) = 4
    /\ response.a_tags[1].href = "#rewards"
    /\ response.a_tags[2].href = "https://other.example/rewards"
    /\ response.a_tags[3].href = "/rewards"
    /\ response.a_tags[4].href = "https://bank.example/rewards"
    /\ Len(fetched.links) = 1
    /\ fetched.links[1].url = "https://bank.example/rewards"

---------------------------------------------------------------------------
\* C32: when a run has ended, the top-level last_updated of the dataset file
\* is a time of this run if the run updated a card, and is what it was when
\* the run started if every card was skipped or fell back.
C32_DatasetTimestamp ==
    pc = "done" =>
        /\ updated_cards # << >> =>
              disk.last_updated \in start_time..now
        /\ updated_cards = << >> =>
              disk.last_updated = start_disk.last_updated

---------------------------------------------------------------------------
\* C33: for a cloud provider get_api_keys returns the stripped non-blank
\* entries of the provider's multi-key setting, in order, when there is at
\* least one; otherwise the single-key setting when it is set; and the empty
\* list only when neither setting provides a key.
C33_CredentialPoolResolution ==
    (keys # NotCalled /\ llm_provider \in CloudProviders) =>
        LET set == key_settings[llm_provider]
            multi == stripped_entries(split(set.API_KEYS))
        IN  /\ multi # << >> => keys = multi
            /\ (multi = << >> /\ set.API_KEY # << >>) => keys = <<set.API_KEY>>
            /\ keys = << >> => (multi = << >> /\ set.API_KEY = << >>)

---------------------------------------------------------------------------
\* The size of the pool an extraction goes through: the keys of a cloud
\* provider, the one empty key of a local provider
PoolSize == IF env.cloud THEN api_keys ELSE 1

\* C34: within one extraction the j-th completion call is made with the key at
\* position j of the pool, so that the positions used increase strictly and no
\* key is used twice; there are at most as many calls as the pool has keys;
\* and for a local provider an extraction that has ended made exactly one
\* call, with the empty key.
C34_BoundedOrderedAttempts ==
    /\ \A j \in DOMAIN call_log : call_log[j].key \in 1..PoolSize
    /\ \A i, j \in DOMAIN call_log : i < j => call_log[i].key < call_log[j].key
    /\ Len(call_log) <= PoolSize
    /\ (~env.cloud /\ pc # "extract") => Len(call_log) = 1 /\ call_log[1].key = 1

\* both keys of a pool of two were used, in order, and the extraction ended
C34_Witness ==
    /\ env.cloud
    /\ api_keys = MaxKeys
    /\ pc # "extract"
    /\ Len(call_log) = MaxKeys
    /\ \A j \in DOMAIN call_log : call_log[j].key = j /\ call_log[j].outcome \in Transient

---------------------------------------------------------------------------
\* C35: when the fetch of a card's main page returns empty content, the card
\* goes from the fetch straight to the save as FAILED_FALLBACK with the
\* fallback record, whatever links the page had; and from then on no request
\* for a sub-link and no completion call is outstanding or made for it.
C35_Step ==
    /\ (main_content' = 0 /\ main_content # 0) =>
          /\ pc = "fetch_main"
          /\ pc' = "save_open"
          /\ Outcome(idx)' = "FAILED_FALLBACK"
          /\ cards_data'[idx] = get_default_card_data(Sources[idx],
                                                      existing_cards[Sources[idx].id])
    /\ main_content' = 0 =>
          /\ in_flight' = {}
          /\ call_log' = << >>
          /\ link_idx' = 1
          /\ pc' \notin {"fetch_sub", "extract"}

C35_NoExtractionWithoutContent == [][C35_Step]_vars

\* a page without text and with three relevant links: the card fell back
C35_Witness ==
    /\ main_content = 0
    /\ links = MAX_DEEP_LINKS
    /\ pc = "save_open"
    /\ Outcome(idx) = "FAILED_FALLBACK"
    /\ call_log = << >>

---------------------------------------------------------------------------
\* The run has completed a write of the dataset file
HasWritten == disk.state = "ok" /\ disk # start_disk

ReExtracted(i) ==
    /\ i \in persisted
    /\ HasRealData(DiskRecord(disk, Sources[i].id))
    /\ DiskRecord(disk, Sources[i].id).last_updated \in start_time..now

---------------------------------------------------------------------------
\* last_updated is missing, empty or cannot be parsed
Unusable(v) == v \in {NoTimestamp, EmptyStamp, Unparseable, NotAString}

\* C37: a card whose existing record has a missing, empty or unparseable
\* last_updated is never SKIPPED: once the loop has passed it, it was
\* attempted; and for no record does an exception leave is_updated_today.
C37_UnusableTimestampsNeverSkip ==
    \A i \in Positions :
        PriorRecord(i) # None =>
            /\ is_updated_today_raises(PriorRecord(i)) = "none"
            /\ Unusable(PriorRecord(i).last_updated) =>
                  /\ Outcome(i) # "SKIPPED"
                  /\ (pc \in Running \cup {"done"} /\ idx > i) => Attempted(i)

\* card 1's record has a last_updated that is no date, card 2's has a number:
\* both were attempted, and the run has ended
C37_Witness ==
    /\ pc = "done"
    /\ PriorRecord(1).last_updated = Unparseable
    /\ PriorRecord(2).last_updated = NotAString
    /\ Attempted(1) /\ Attempted(2)

---------------------------------------------------------------------------
\* C38: once reload_card_data has been served, every reader of the card list
\* answers from the list that the reload loaded: GET /api/cards returns it,
\* the status counts it, build_context goes through it, and
\* get_top_cards_for_category ranks it.
C38_ReloadVisibleToReaders ==
    reloaded =>
        /\ answer.reader \in {"get_cards", "build_context"} =>
              answer.cards = credit_cards
        /\ answer.reader = "get_cards_status" => answer.count = Len(credit_cards)
        /\ answer.reader = "get_top_cards_for_category" =>
              answer.cards = get_top_cards_for_category(credit_cards, "dining",
                                                        answer.count)

---------------------------------------------------------------------------
\* C39: whatever new_session, chat and clear_chat_sessions requests have been
\* served, the persisted store maps session ids to sessions, and a
\* log_chat_message succeeds and leaves its message as the last one recorded
\* under its session id.
C39_SessionStoreShape ==
    /\ chat_file.shape \in {"missing", "invalid", "dict"}
    /\ last_request.op = "log_chat_message" =>
          /\ last_request.result = "ok"
          /\ chat_file.sessions[last_request.session_id].present
          /\ LET messages == chat_file.sessions[last_request.session_id].messages
             IN  /\ messages # << >>
                 /\ messages[Len(messages)] = last_request.role

====
